---- MODULE Spec2Model ----
(***************************************************************************)
(* State machine of the shared block watcher of oz-monitor-orchestrator    *)
(* (src/src/services/shared_block_watcher.rs): the networks map, the scan  *)
(* tasks spawned by start(), the retrying RPC calls of one scan iteration  *)
(* and the tokio broadcast channel the block events are sent on.           *)
(*                                                                         *)
(* Every step of a task is one stretch of code between two suspension      *)
(* points that touches shared state at most once (one lock acquisition or  *)
(* one channel operation).  Heights are u64 in the code; the model keeps   *)
(* them far below 2^64, so the wrap-around of last_processed_block + 1 and *)
(* of start_block + max_blocks_per_fetch - 1 is outside the model.         *)
(***************************************************************************)
EXTENDS Integers, Sequences, FiniteSets, TLC

\* ---------------------------------------------------------------- bounds
\* Largest height the RPC reports.
MaxHeight == 5
\* Scan tasks spawned over one behaviour.
MaxTasks == 2
\* start() calls in flight at the same time.
MaxStarts == 1
\* Broadcast receivers alive at the same time.
MaxSubs == 1

\* Trigger conditions of one monitor.
MaxConditions == 2
\* Ticks of the clock the balancer reads.
MaxTime == 2
\* Largest tenant_count a worker reaches.
MaxCount == 2

\* LoadBalancerConfig.min_rebalance_interval, in ticks.
min_rebalance_interval == 2

\* ------------------------------------------- SharedBlockWatcherConfig
channel_buffer_size == 1
max_blocks_per_fetch == 2
retry_attempts == 3
retry_delay_ms == 10

\* ------------------------------------------------------------- helpers
Min(a, b) == IF a <= b THEN a ELSE b

RECURSIVE Pow2(_)
Pow2(n) == IF n <= 0 THEN 1 ELSE 2 * Pow2(n - 1)

RECURSIVE next_power_of_two(_)
next_power_of_two(n) == IF n <= 1 THEN 1 ELSE 2 * next_power_of_two((n + 1) \div 2)

\* tokio::sync::broadcast::channel(capacity) allocates
\* capacity.next_power_of_two() slots.
Capacity == next_power_of_two(channel_buffer_size)

\* Network descriptors the callers register (slug, type, confirmations).
NetA == [slug |-> "net_a", network_type |-> "EVM", confirmation_blocks |-> 1]
NetB == [slug |-> "net_b", network_type |-> "Other", confirmation_blocks |-> 0]

Networks == { NetA, NetB }

\* Descriptors that name a slug of Networks with another configuration.
Redefined ==
  { [slug |-> "net_a", network_type |-> "Stellar", confirmation_blocks |-> 0],
    [slug |-> "net_b", network_type |-> "EVM", confirmation_blocks |-> 1] }

Slugs == { n.slug : n \in Networks }

\* Heights get_latest_block_number may report, in any order.
Heights == {0, 2, MaxHeight}

StartIds == 1 .. MaxStarts
Subs == 1 .. MaxSubs

VARIABLES
  networks,         \* HashMap<String, NetworkWatcherState>
  watcher_handles,  \* Vec<JoinHandle<()>>: indices into tasks
  tasks,            \* the spawned scan tasks, in spawn order
  starts,           \* the start() calls in flight
  chan,             \* events retained by the broadcast channel
  rx,               \* the broadcast receivers
  emitted,          \* per slug, the last height of the last event handed to send
  \* OzMonitorServices and the tenant-aware repositories
  db_monitors,      \* active rows of tenant_monitors
  tenant_filter,    \* TenantAwareMonitorRepository.tenant_filter
  monitor_cache,    \* DashMap<Uuid, HashMap<String, Monitor>>
  processing,       \* the process_block call in flight
  all_matches,      \* Vec<TenantMonitorMatch> of the current or last process_block
  last_eval,        \* conditions and result of the last evaluate_trigger_conditions
  \* LoadBalancer
  assignments,      \* HashMap<Uuid, TenantAssignment>
  worker_loads,     \* HashMap<String, WorkerMetrics>
  tenant_metrics,   \* HashMap<Uuid, TenantMetrics>
  tenant_worker_map,\* HashMap<String, String>
  last_rebalance,   \* time of the last rebalance
  now,              \* chrono::Utc::now()
  returned,         \* what the last call on the balancer returned
  strategy,         \* LoadBalancerConfig.strategy
  \* MonitorWorkerPool and its workers
  workers,          \* HashMap<String, Arc<RwLock<MonitorWorker>>>: the registered ids
  workers_lock,     \* the RwLock around the registry
  monitor_worker,   \* the MonitorWorker objects by id, with their lock and tasks
  calls,            \* the calls on the pool in flight
  \* BlockCacheService and one CachedBlockClient
  redis,            \* the Redis keys the client reads and writes
  client_call,      \* the last call on the cached client
  \* OrchestratorConfig
  config,           \* the configuration loaded
  validation,       \* what validate returned for it
  \* The RwLocks of the LoadBalancer and the calls that take them
  rwlocks,          \* per lock, its guards and the queue of tasks awaiting it
  lb_calls,         \* the calls on the balancer in flight
  \* The tasks of the workers and what the consumers found
  health_check_interval, \* WorkerConfig.health_check_interval, in seconds
  health_finished,  \* the workers whose health task has ended
  total_matches,    \* matches the consumers got from process_block, summed
  triggers_executed,\* calls of execute_triggers
  \* The network and trigger tables, and the last call on the services
  db_networks,      \* the rows of tenant_networks
  db_triggers,      \* the rows of tenant_triggers
  context,          \* the last call and the TenantMonitorContext it built
  \* run() of the watcher and the RwLock around watcher_handles
  handles_lock,     \* the read guards run holds and the queue of acquisitions
  run_pc,           \* where the call of run is
  \* One block in process_block, by the matches of the filter service
  block_type,       \* "EVM" or "Stellar"
  filter_results,   \* per tenant, the matches filter_block returns for the block
  block_result      \* the tenants still to process and the matches collected

watcher_vars == << networks, watcher_handles, tasks, starts, chan, rx, emitted >>

oz_vars == << db_monitors, tenant_filter, monitor_cache, processing, all_matches,
              last_eval >>

lb_vars == << assignments, worker_loads, tenant_metrics, tenant_worker_map,
              last_rebalance, now, returned, strategy >>

pool_vars == << workers, workers_lock, monitor_worker, calls >>

cache_vars == << redis, client_call >>

config_vars == << config, validation >>

lock_vars == << rwlocks, lb_calls >>

task_vars == << health_check_interval, health_finished, total_matches, triggers_executed >>

context_vars == << db_networks, db_triggers, context >>

run_vars == << handles_lock, run_pc >>

match_vars == << block_type, filter_results, block_result >>

vars == << watcher_vars, oz_vars, lb_vars, pool_vars, cache_vars, config_vars, lock_vars, task_vars, context_vars, run_vars, match_vars >>

\* ------------------------------------------------------ pure functions
saturating_sub(a, b) == IF a >= b THEN a - b ELSE 0

latest_confirmed_block(latest_block, network) ==
  saturating_sub(latest_block, network.confirmation_blocks)

start_block(last_processed_block, latest_confirmed) ==
  IF last_processed_block = 0 THEN latest_confirmed ELSE last_processed_block + 1

\* Variant: the range is not limited.
end_block_unlimited(latest_confirmed, start) == latest_confirmed

end_block(latest_confirmed, start) ==
  Min(latest_confirmed, start + max_blocks_per_fetch - 1)

\* retry_with_backoff: the test after a failed attempt, and the delay
\* slept before the next one (attempt counts the failures so far).
\* Variant: one attempt more before giving up.
attempts_exhausted_late(attempt) == attempt > retry_attempts

attempts_exhausted(attempt) == attempt >= retry_attempts

\* Variant: the exponent is the number of failures so far.
backoff_delay_doubled(attempt) == retry_delay_ms * Pow2(attempt)

backoff_delay(attempt) == retry_delay_ms * Pow2(attempt - 1)

\* outcomes[k] is what the k-th invocation of f() returns.  The result
\* carries, besides Ok(value) or Err, the number of invocations made and
\* the delays slept between them.
RECURSIVE retry_loop(_, _, _)
retry_loop(outcomes, attempt, delays) ==
  IF Head(outcomes).ok
    THEN [ok |-> TRUE, value |-> Head(outcomes).value,
          calls |-> attempt + 1, delays |-> delays]
  ELSE IF attempts_exhausted(attempt + 1)
    THEN [ok |-> FALSE, value |-> 0,
          calls |-> attempt + 1, delays |-> delays]
    ELSE retry_loop(Tail(outcomes), attempt + 1,
                    Append(delays, backoff_delay(attempt + 1)))

retry_with_backoff(outcomes) == retry_loop(outcomes, 0, << >>)

\* An RPC that fails `failures` times, then returns first, then later.
RpcScript(failures, first, later) ==
  [k \in 1 .. retry_attempts + 2 |->
     IF k <= failures THEN [ok |-> FALSE, value |-> 0]
     ELSE IF k = failures + 1 THEN [ok |-> TRUE, value |-> first]
     ELSE [ok |-> TRUE, value |-> later]]

\* What a call made after the first successful one would return: a value
\* no first successful call returns.
Stale == MaxHeight + 1

\* The behaviours of an RPC over the calls of one retry_with_backoff: it
\* fails every time, or fails fewer than retry_attempts times and then
\* returns a value.
RpcScripts(values) ==
  { RpcScript(retry_attempts + 2, 0, 0) } \cup
  { RpcScript(f, v, Stale) : f \in 0 .. retry_attempts - 1, v \in values }

\* ------------------------------------------------------------ records
NetworkWatcherState(network) ==
  [network |-> network, last_processed_block |-> 0, is_running |-> FALSE]

NoResult == [kind |-> "none", n |-> 0]
Ok(n)    == [kind |-> "ok", n |-> n]
Err      == [kind |-> "err", n |-> 0]

NoRpc == [ok |-> TRUE, value |-> 0, calls |-> 0, delays |-> << >>]

\* The locals of one scan task.  rpc is the outcome of the
\* retry_with_backoff around get_blocks (or of the one that gave up);
\* sent and receivers record the send of the current iteration (events
\* handed to the channel, receiver count returned); stage names the
\* return statement that ended the last iteration.  Locals that the code
\* does not read again are dropped.  A task starts in its initial sleep.
\* removed is history, not a local: the network of the task was removed
\* since the task last read its loop condition.
NewTask(network) ==
  [pc |-> "sleep", network |-> network,
   last_processed_block |-> 0, latest_block |-> 0,
   start_block |-> 0, end_block |-> 0,
   rpc |-> NoRpc, sent |-> 0, receivers |-> 0,
   result |-> NoResult, stage |-> "spawned", removed |-> FALSE]

IdleStart == [pc |-> "idle", todo |-> {}, handle |-> 0]

BlockEvent(network, start, end) ==
  [network |-> network.slug, start |-> start, end |-> end]

TaskIds == 1 .. Len(tasks)

\* ------------------------------------------------------------------ Init
\* SharedBlockWatcher::new: no network, no task, an empty channel.
SharedBlockWatcher_new ==
  /\ networks = << >>
  /\ watcher_handles = << >>
  /\ tasks = << >>
  /\ starts = [c \in StartIds |-> IdleStart]
  /\ chan = << >>
  /\ rx = [r \in Subs |-> [active |-> FALSE, unread |-> 0, lagged |-> FALSE]]
  /\ emitted = << >>

\* OzMonitorServices::new for the tenants tenant_ids over a database with
\* the monitor rows db: the caches are empty.
OzMonitorServices_new(db, tenant_ids) ==
  /\ db_monitors = db
  /\ tenant_filter = tenant_ids
  /\ monitor_cache = << >>
  /\ processing = << >>
  /\ all_matches = << >>
  /\ last_eval = << >>

\* What a call on the balancer returned: the call, its argument, and the
\* value as a worker id or error (Result<String>), a list of tenants
\* (Result<Vec<Uuid>>) or a distribution (Result<HashMap<String, Vec<Uuid>>>).
Return(op, arg, worker, tenants, distribution) ==
  [op |-> op, arg |-> arg, worker |-> worker, tenants |-> tenants,
   distribution |-> distribution, needed |-> FALSE]

\* The value of a call that returns bool.
ReturnBool(op, value) ==
  [op |-> op, arg |-> "", worker |-> "", tenants |-> {}, distribution |-> << >>,
   needed |-> value]

\* LoadBalancer::new(config): empty maps, last_rebalance is the time of
\* the call.
LoadBalancer_new(config_strategy) ==
  /\ assignments = << >>
  /\ worker_loads = << >>
  /\ tenant_metrics = << >>
  /\ tenant_worker_map = << >>
  /\ now = 0
  /\ last_rebalance = now
  /\ returned = Return("new", "", "", {}, << >>)
  /\ strategy = config_strategy

\* Concurrent calls on the pool.
MaxCalls == 2

CallIds == 1 .. MaxCalls

NoCall == [op |-> "none", worker_id |-> "", tenant_ids |-> << >>, pc |-> "idle",
           result |-> "", listed |-> {}]

\* MonitorWorkerPool::new: an empty registry.
MonitorWorkerPool_new ==
  /\ workers = {}
  /\ workers_lock = [writer |-> 0, readers |-> {}]
  /\ monitor_worker = << >>
  /\ calls = [c \in CallIds |-> NoCall]

\* BlockCacheConfig.key_prefix and the slug of the client's network.
key_prefix == "oz_cache"

network_slug == NetA.slug

\* get_blocks(start, end): end is Option<u64>, << >> for None and << e >>
\* for Some(e).
BlockStarts == {1, 2}

BlockEnds == { << >>, << 2 >> }

block_cache_key(start, end) == << key_prefix, "blocks", network_slug, start, end >>

latest_block_cache_key == << key_prefix, "latest", network_slug >>

CacheKeys ==
  { block_cache_key(s, e) : s \in BlockStarts, e \in BlockEnds }
    \cup { latest_block_cache_key }

\* What Redis holds under a key: nothing, the JSON of a Vec<BlockType>, a
\* number, or bytes that are neither.
Absent == [kind |-> "absent", blocks |-> << >>, number |-> 0]

to_vec(blocks) == [kind |-> "blocks", blocks |-> blocks, number |-> 0]

to_redis(block_number) == [kind |-> "number", blocks |-> << >>, number |-> block_number]

Garbage == [kind |-> "garbage", blocks |-> << >>, number |-> 0]

\* Result<Vec<BlockType>> and Result<u64> of the client, with the origin
\* of an error.
OkBlocks(blocks) == [kind |-> "ok", blocks |-> blocks, number |-> 0, error |-> ""]

OkNumber(block_number) ==
  [kind |-> "ok", blocks |-> << >>, number |-> block_number, error |-> ""]

ErrFrom(origin) == [kind |-> "err", blocks |-> << >>, number |-> 0, error |-> origin]

NoClientCall ==
  [op |-> "none", key |-> latest_block_cache_key, read_ok |-> TRUE,
   write_ok |-> TRUE, rpc |-> ErrFrom(""), rpc_called |-> FALSE,
   result |-> ErrFrom("")]

\* CachedBlockClient::new over a Redis that holds none of its keys.
CachedBlockClient_new ==
  /\ redis = [k \in CacheKeys |-> Absent]
  /\ client_call = NoClientCall

\* The configuration of the test test_default_config: every sub-config at
\* its Default, the two URLs set.  Durations are in seconds, the
\* rebalance threshold in hundredths.
DefaultConfig ==
  [database_url |-> "postgresql://test",
   redis_url |-> "redis://test",
   worker |-> [max_tenants_per_worker |-> 50, health_check_interval |-> 30,
               tenant_reload_interval |-> 300],
   block_cache |-> [block_ttl |-> 60, latest_block_ttl |-> 5,
                    key_prefix |-> "oz_cache"],
   load_balancer |-> [max_tenants_per_worker |-> 50, rebalance_threshold |-> 20,
                      min_rebalance_interval |-> 300],
   block_watcher |-> [channel_buffer_size |-> 1000, max_blocks_per_fetch |-> 100,
                      retry_attempts |-> 3, retry_delay_ms |-> 1000],
   api |-> [host |-> "0.0.0.0", port |-> 3000, rate_limit |-> 100]]

NotValidated == [kind |-> "none", message |-> ""]

\* The configuration load() returned, not validated yet.
OrchestratorConfig_new ==
  /\ config = DefaultConfig
  /\ validation = NotValidated

\* Concurrent calls on the balancer.
MaxBalancerCalls == 2

BalancerCallIds == 1 .. MaxBalancerCalls

\* The Arc<RwLock<..>> fields of LoadBalancer.
LockNames ==
  {"assignments", "worker_loads", "tenant_metrics", "tenant_worker_map",
   "last_rebalance"}

\* tokio::sync::RwLock: the task holding the write guard (0 for none),
\* the read guards each task holds, and the first-in first-out queue of
\* the acquisitions that wait.
RwLock_new == [writer |-> 0, readers |-> [c \in BalancerCallIds |-> 0], queue |-> << >>]

NoBalancerCall ==
  [op |-> "none", tenant_id |-> "", worker_id |-> "", load |-> 0, rest |-> << >>,
   waiting |-> FALSE, result |-> ""]

\* No call on the balancer in flight, every lock free.
LoadBalancer_idle ==
  /\ rwlocks = [l \in LockNames |-> RwLock_new]
  /\ lb_calls = [c \in BalancerCallIds |-> NoBalancerCall]

\* --------------------------------------------------- tasks of a worker
\* Matches the consumers of the pool find before the model stops counting.
MaxMatches == 2

\* WorkerConfig::default (worker_pool.rs 38-47) and the workers of a pool
\* in which no task has ended and no block was processed.
WorkerTasks_new ==
  /\ health_check_interval = 30
  /\ health_finished = {}
  /\ total_matches = 0
  /\ triggers_executed = 0

\* ------------------------------------------------ TenantMonitorContext
\* The last call on the services (op), the tenants it named and, for
\* get_tenant_context, the networks and triggers of the context.
Context(op, tenant_ids, nets, triggers) ==
  [op |-> op, tenant_ids |-> tenant_ids, networks |-> nets, triggers |-> triggers]

\* Empty network and trigger tables and services that were not called.
TenantContext_none ==
  /\ db_networks = {}
  /\ db_triggers = {}
  /\ context = Context("none", {}, {}, {})

\* ------------------------------------------------ run() of the watcher
\* The RwLock around watcher_handles is not held and run was not called.
SharedBlockWatcher_idle ==
  /\ handles_lock = [readers |-> 0, queue |-> << >>]
  /\ run_pc = "idle"

\* ------------------------------------------- the matches of one block
\* Result<Vec<TenantMonitorMatch>> of process_block on the way: the
\* tenants of the loop that are left, all_matches, and how it ended.
BlockResult(kind, tenant_ids, matches) ==
  [kind |-> kind, tenant_ids |-> tenant_ids, matches |-> matches]

\* No block is in process_block.
OzMonitorServices_idle ==
  /\ block_type = "EVM"
  /\ filter_results = << >>
  /\ block_result = BlockResult("none", << >>, << >>)

Init ==
  /\ SharedBlockWatcher_new
  /\ OzMonitorServices_new({}, {})
  /\ LoadBalancer_new("ConsistentHashing")
  /\ MonitorWorkerPool_new
  /\ CachedBlockClient_new
  /\ OrchestratorConfig_new
  /\ LoadBalancer_idle
  /\ WorkerTasks_new
  /\ TenantContext_none
  /\ SharedBlockWatcher_idle
  /\ OzMonitorServices_idle

\* ------------------------------------------------- add / remove network
\* Variant: the entry of a known slug is replaced by a fresh one.
insert_network_overwrite(map, network) ==
  [s \in DOMAIN map \cup {network.slug} |->
     IF s = network.slug THEN NetworkWatcherState(network) ELSE map[s]]

insert_network(map, network) ==
  IF network.slug \in DOMAIN map
    THEN map
    ELSE [s \in DOMAIN map \cup {network.slug} |->
            IF s = network.slug THEN NetworkWatcherState(network) ELSE map[s]]

add_network(network) ==
  /\ networks' = insert_network(networks, network)
  /\ UNCHANGED << watcher_handles, tasks, starts, chan, rx, emitted >>

\* The tasks that run for a network when it is removed.
note_removed(ts, map, slug) ==
  [i \in DOMAIN ts |->
     IF slug \in DOMAIN map /\ ts[i].network.slug = slug /\ ts[i].pc \notin {"exit", "done"}
       THEN [ts[i] EXCEPT !.removed = TRUE]
       ELSE ts[i]]

remove_network(slug) ==
  /\ networks' = [s \in DOMAIN networks \ {slug} |-> networks[s]]
  /\ emitted' = [s \in DOMAIN emitted \ {slug} |-> emitted[s]]
  /\ tasks' = note_removed(tasks, networks, slug)
  /\ UNCHANGED << watcher_handles, starts, chan, rx >>

\* ------------------------------------------------------------- start()
\* The snapshot taken under the read lock: the descriptors of the
\* networks whose is_running is false.
networks_to_start(map) ==
  { map[s].network : s \in { x \in DOMAIN map : ~ map[x].is_running } }

start_collect(c) ==
  /\ starts[c].pc = "idle"
  /\ starts' = [starts EXCEPT ![c] =
                  [pc |-> "iter", todo |-> networks_to_start(networks), handle |-> 0]]
  /\ UNCHANGED << networks, watcher_handles, tasks, chan, rx, emitted >>

\* start_network_watcher: set is_running under the write lock when the
\* slug is still registered, then spawn the task.
mark_running(map, slug) ==
  IF slug \in DOMAIN map
    THEN [map EXCEPT ![slug].is_running = TRUE]
    ELSE map

start_network_watcher(c, network) ==
  /\ starts[c].pc = "iter"
  /\ network \in starts[c].todo
  /\ Len(tasks) < MaxTasks
  /\ networks' = mark_running(networks, network.slug)
  /\ tasks' = Append(tasks, NewTask(network))
  /\ starts' = [starts EXCEPT ![c] =
                  [pc |-> "push", todo |-> starts[c].todo \ {network},
                   handle |-> Len(tasks) + 1]]
  /\ UNCHANGED << watcher_handles, chan, rx, emitted >>

start_push_handle(c) ==
  /\ starts[c].pc = "push"
  /\ watcher_handles' = Append(watcher_handles, starts[c].handle)
  /\ starts' = [starts EXCEPT ![c].pc = "iter", ![c].handle = 0]
  /\ UNCHANGED << networks, tasks, chan, rx, emitted >>

start_return(c) ==
  /\ starts[c].pc = "iter"
  /\ starts[c].todo = {}
  /\ starts' = [starts EXCEPT ![c] = IdleStart]
  /\ UNCHANGED << networks, watcher_handles, tasks, chan, rx, emitted >>

\* --------------------------------------------------- broadcast channel
receiver_count(rxs) == Cardinality({ r \in Subs : rxs[r].active })

MaxUnread(rxs) ==
  LET u == { rxs[r].unread : r \in { x \in Subs : rxs[x].active } } \cup {0}
  IN  CHOOSE m \in u : \A k \in u : k <= m

\* Only the events some receiver can still read are kept.
retain(ch, rxs) == SubSeq(ch, Len(ch) - MaxUnread(rxs) + 1, Len(ch))

\* Sender::send never waits.  Without a receiver the value is returned in
\* a SendError; otherwise it takes the next slot, and a receiver that had
\* all Capacity slots unread loses the oldest one (its next recv reports
\* Lagged).
\* Variant: a receiver with all slots unread keeps them and the new event
\* is not stored for it.
send_rx_keeps_oldest(rxs) ==
  [r \in Subs |->
     IF ~ rxs[r].active \/ rxs[r].unread >= Capacity
       THEN rxs[r]
       ELSE [rxs[r] EXCEPT !.unread = @ + 1]]

send_rx(rxs) ==
  [r \in Subs |->
     IF ~ rxs[r].active THEN rxs[r]
     ELSE IF rxs[r].unread >= Capacity
       THEN [rxs[r] EXCEPT !.lagged = TRUE]
       ELSE [rxs[r] EXCEPT !.unread = @ + 1]]

send_chan(ch, rxs, event) ==
  IF receiver_count(rxs) = 0 THEN ch
  ELSE retain(Append(ch, event), send_rx(rxs))

subscribe(r) ==
  /\ ~ rx[r].active
  /\ rx' = [rx EXCEPT ![r] = [active |-> TRUE, unread |-> 0, lagged |-> FALSE]]
  /\ UNCHANGED << networks, watcher_handles, tasks, starts, chan, emitted >>

\* Receiver::recv with something to return: Lagged first, else the oldest
\* unread event.
recv(r) ==
  /\ rx[r].active
  /\ rx[r].lagged \/ rx[r].unread > 0
  /\ rx' = IF rx[r].lagged
             THEN [rx EXCEPT ![r].lagged = FALSE]
             ELSE [rx EXCEPT ![r].unread = @ - 1]
  /\ chan' = retain(chan, rx')
  /\ UNCHANGED << networks, watcher_handles, tasks, starts, emitted >>

drop_receiver(r) ==
  /\ rx[r].active
  /\ rx' = [rx EXCEPT ![r] = [active |-> FALSE, unread |-> 0, lagged |-> FALSE]]
  /\ chan' = retain(chan, rx')
  /\ UNCHANGED << networks, watcher_handles, tasks, starts, emitted >>

\* ------------------------------------------------------- the scan task
Slug(i) == tasks[i].network.slug

SetTask(i, t) == tasks' = [tasks EXCEPT ![i] = t]

\* Top of the loop: continue only when the slug is registered and its
\* is_running is true.
loop_continues(map, slug) == slug \in DOMAIN map /\ map[slug].is_running

\* The sleep (the initial one, or the one that ends an iteration) is over
\* and the loop condition is read under the read lock.
loop_check(i) ==
  /\ tasks[i].pc = "sleep"
  /\ SetTask(i, [NewTask(tasks[i].network) EXCEPT
                   !.stage = "",
                   !.pc = IF loop_continues(networks, Slug(i)) THEN "fetch" ELSE "exit"])
  /\ UNCHANGED << networks, watcher_handles, starts, chan, rx, emitted >>

\* After the loop: clear is_running when the slug is registered.
mark_stopped(map, slug) ==
  IF slug \in DOMAIN map
    THEN [map EXCEPT ![slug].is_running = FALSE]
    ELSE map

loop_exit(i) ==
  /\ tasks[i].pc = "exit"
  /\ networks' = mark_stopped(networks, Slug(i))
  /\ SetTask(i, [NewTask(tasks[i].network) EXCEPT !.pc = "done", !.stage = "exited"])
  /\ UNCHANGED << watcher_handles, starts, chan, rx, emitted >>

\* The iteration is over: its result is logged and the task sleeps
\* calculate_sleep_duration(network).  Of the locals stay visible the
\* result, a retry_with_backoff that gave up and, when there was no new
\* block, the heights that were compared.
to_sleep(t, result, stage) ==
  [NewTask(t.network) EXCEPT
     !.result = result, !.stage = stage, !.removed = t.removed,
     !.rpc = IF t.rpc.ok THEN NoRpc ELSE t.rpc,
     !.last_processed_block = IF stage = "no_new_blocks" THEN t.last_processed_block ELSE 0,
     !.latest_block = IF stage = "no_new_blocks" THEN t.latest_block ELSE 0]

read_cursor(map, slug) ==
  IF slug \in DOMAIN map THEN map[slug].last_processed_block ELSE 0

\* fetch_blocks_for_client from the blocks get_blocks returned (with
\* retry) to the event handed to send; value 0 stands for an empty list,
\* 1 for the blocks of the range.
fetch_blocks(t, blocks_outcomes) ==
  LET r == retry_with_backoff(blocks_outcomes)
      u == [t EXCEPT !.rpc = r]
  IN  IF ~ r.ok THEN to_sleep(u, Err, "get_blocks")
      ELSE IF r.value = 0 THEN to_sleep(u, Ok(0), "empty")
      ELSE [u EXCEPT !.pc = "send"]

\* No new blocks to process.
no_new_blocks(start, latest_confirmed) == start > latest_confirmed

\* fetch_blocks_for_client: get_latest_block_number with retry, the range
\* computation, then the fetch of the range.
fetch_blocks_for_client(t, latest_outcomes, blocks_outcomes) ==
  LET r  == retry_with_backoff(latest_outcomes)
      u  == [t EXCEPT !.rpc = r, !.latest_block = r.value]
      lc == latest_confirmed_block(r.value, t.network)
      sb == start_block(t.last_processed_block, lc)
  IN  IF ~ r.ok THEN to_sleep(u, Err, "get_latest_block_number")
      ELSE IF no_new_blocks(sb, lc) THEN to_sleep(u, Ok(0), "no_new_blocks")
      ELSE fetch_blocks([u EXCEPT !.start_block = sb,
                                  !.end_block = end_block(lc, sb)],
                        blocks_outcomes)

\* fetch_and_broadcast_blocks up to the send: the cursor is read under
\* the read lock, then the client is taken for the network type and the
\* RPC calls are made.  The RPC calls touch no shared state, so they are
\* part of the step that read the cursor.
fetch_and_broadcast_blocks(i, client_ok, latest_outcomes, blocks_outcomes) ==
  /\ tasks[i].pc = "fetch"
  /\ LET t == [tasks[i] EXCEPT
                 !.last_processed_block = read_cursor(networks, Slug(i))]
     IN  SetTask(i,
           IF t.network.network_type \notin {"EVM", "Stellar"}
             THEN to_sleep(t, Ok(0), "unsupported")
           ELSE IF ~ client_ok
             THEN to_sleep(t, Err, "get_client")
             ELSE fetch_blocks_for_client(t, latest_outcomes, blocks_outcomes))
  /\ UNCHANGED << networks, watcher_handles, starts, chan, rx, emitted >>

\* block_sender.send(event): Ok(receiver_count) and Err are both only
\* logged, and the iteration goes on to the cursor.
\* Variant: a send without receivers ends the iteration with an error.
after_send_needs_receiver(t, count) ==
  IF count = 0
    THEN to_sleep(t, Err, "send")
    ELSE [t EXCEPT !.pc = "update", !.rpc = NoRpc, !.sent = @ + 1, !.receivers = count]

after_send(t, count) ==
  [t EXCEPT !.pc = "update", !.rpc = NoRpc, !.sent = @ + 1, !.receivers = count]

broadcast(i) ==
  /\ tasks[i].pc = "send"
  /\ LET t  == tasks[i]
         ev == BlockEvent(t.network, t.start_block, t.end_block)
     IN  /\ chan' = send_chan(chan, rx, ev)
         /\ rx' = send_rx(rx)
         /\ emitted' = [s \in DOMAIN emitted \cup {Slug(i)} |->
                          IF s = Slug(i) THEN t.end_block ELSE emitted[s]]
         /\ SetTask(i, after_send(t, receiver_count(rx)))
  /\ UNCHANGED << networks, watcher_handles, starts >>

\* Update last processed block under the write lock.
write_cursor(map, slug, end) ==
  IF slug \in DOMAIN map
    THEN [map EXCEPT ![slug].last_processed_block = end]
    ELSE map

update_cursor(i) ==
  /\ tasks[i].pc = "update"
  /\ networks' = write_cursor(networks, Slug(i), tasks[i].end_block)
  /\ SetTask(i, to_sleep(tasks[i],
                         Ok(tasks[i].end_block - tasks[i].start_block + 1),
                         "done"))
  /\ UNCHANGED << watcher_handles, starts, chan, rx, emitted >>

\* ------------------------------------------------------------------ Next
\* The RPC outcomes of one scan iteration.
fetch_step(i) ==
  \E ok \in BOOLEAN :
    \E latest \in RpcScripts(Heights) : \E blocks \in RpcScripts({0, 1}) :
      fetch_and_broadcast_blocks(i, ok, latest, blocks)

\* The watcher as its public interface allows it to be driven, with no
\* receiver of the channel alive (mode block-watcher of main.rs: nothing
\* subscribes).
Next ==
  \/ \E n \in Networks : add_network(n) /\ UNCHANGED << oz_vars, lb_vars, pool_vars, cache_vars, config_vars, lock_vars, task_vars, context_vars, run_vars, match_vars >>
  \/ \E s \in Slugs : remove_network(s) /\ UNCHANGED << oz_vars, lb_vars, pool_vars, cache_vars, config_vars, lock_vars, task_vars, context_vars, run_vars, match_vars >>
  \/ \E c \in StartIds : start_collect(c) /\ UNCHANGED << oz_vars, lb_vars, pool_vars, cache_vars, config_vars, lock_vars, task_vars, context_vars, run_vars, match_vars >>
  \/ \E c \in StartIds : \E n \in Networks : start_network_watcher(c, n) /\ UNCHANGED << oz_vars, lb_vars, pool_vars, cache_vars, config_vars, lock_vars, task_vars, context_vars, run_vars, match_vars >>
  \/ \E c \in StartIds : start_push_handle(c) /\ UNCHANGED << oz_vars, lb_vars, pool_vars, cache_vars, config_vars, lock_vars, task_vars, context_vars, run_vars, match_vars >>
  \/ \E c \in StartIds : start_return(c) /\ UNCHANGED << oz_vars, lb_vars, pool_vars, cache_vars, config_vars, lock_vars, task_vars, context_vars, run_vars, match_vars >>
  \/ \E i \in TaskIds : loop_check(i) /\ UNCHANGED << oz_vars, lb_vars, pool_vars, cache_vars, config_vars, lock_vars, task_vars, context_vars, run_vars, match_vars >>
  \/ \E i \in TaskIds : fetch_step(i) /\ UNCHANGED << oz_vars, lb_vars, pool_vars, cache_vars, config_vars, lock_vars, task_vars, context_vars, run_vars, match_vars >>
  \/ \E i \in TaskIds : broadcast(i) /\ UNCHANGED << oz_vars, lb_vars, pool_vars, cache_vars, config_vars, lock_vars, task_vars, context_vars, run_vars, match_vars >>
  \/ \E i \in TaskIds : update_cursor(i) /\ UNCHANGED << oz_vars, lb_vars, pool_vars, cache_vars, config_vars, lock_vars, task_vars, context_vars, run_vars, match_vars >>
  \/ \E i \in TaskIds : loop_exit(i) /\ UNCHANGED << oz_vars, lb_vars, pool_vars, cache_vars, config_vars, lock_vars, task_vars, context_vars, run_vars, match_vars >>

Spec == Init /\ [][Next]_vars

\* One scan iteration after another of a started network, from any value
\* of its cursor, with receivers coming and going: the state after
\* add_network(NetA) and start() and some iterations.  Callers go on
\* adding networks; nothing is removed.
InitScan ==
  /\ \E p \in 0 .. MaxHeight :
       networks = [s \in {NetA.slug} |->
                     [network |-> NetA, last_processed_block |-> p, is_running |-> TRUE]]
  /\ watcher_handles = << 1 >>
  /\ tasks = << NewTask(NetA) >>
  /\ starts = [c \in StartIds |-> IdleStart]
  /\ chan = << >>
  /\ rx = [r \in Subs |-> [active |-> FALSE, unread |-> 0, lagged |-> FALSE]]
  /\ emitted = [s \in {x \in {NetA.slug} : networks[x].last_processed_block > 0} |->
                  networks[s].last_processed_block]
  /\ OzMonitorServices_new({}, {})
  /\ LoadBalancer_new("ConsistentHashing")
  /\ MonitorWorkerPool_new
  /\ CachedBlockClient_new
  /\ OrchestratorConfig_new
  /\ LoadBalancer_idle
  /\ WorkerTasks_new
  /\ TenantContext_none
  /\ SharedBlockWatcher_idle
  /\ OzMonitorServices_idle

NextScan ==
  \/ \E n \in Networks \cup Redefined : add_network(n) /\ UNCHANGED << oz_vars, lb_vars, pool_vars, cache_vars, config_vars, lock_vars, task_vars, context_vars, run_vars, match_vars >>
  \/ \E i \in TaskIds : loop_check(i) /\ UNCHANGED << oz_vars, lb_vars, pool_vars, cache_vars, config_vars, lock_vars, task_vars, context_vars, run_vars, match_vars >>
  \/ \E i \in TaskIds : fetch_step(i) /\ UNCHANGED << oz_vars, lb_vars, pool_vars, cache_vars, config_vars, lock_vars, task_vars, context_vars, run_vars, match_vars >>
  \/ \E i \in TaskIds : broadcast(i) /\ UNCHANGED << oz_vars, lb_vars, pool_vars, cache_vars, config_vars, lock_vars, task_vars, context_vars, run_vars, match_vars >>
  \/ \E i \in TaskIds : update_cursor(i) /\ UNCHANGED << oz_vars, lb_vars, pool_vars, cache_vars, config_vars, lock_vars, task_vars, context_vars, run_vars, match_vars >>
  \/ \E r \in Subs : subscribe(r) /\ UNCHANGED << oz_vars, lb_vars, pool_vars, cache_vars, config_vars, lock_vars, task_vars, context_vars, run_vars, match_vars >>
  \/ \E r \in Subs : recv(r) /\ UNCHANGED << oz_vars, lb_vars, pool_vars, cache_vars, config_vars, lock_vars, task_vars, context_vars, run_vars, match_vars >>
  \/ \E r \in Subs : drop_receiver(r) /\ UNCHANGED << oz_vars, lb_vars, pool_vars, cache_vars, config_vars, lock_vars, task_vars, context_vars, run_vars, match_vars >>

SpecScan == InitScan /\ [][NextScan]_vars

\* ==================================================== OzMonitorServices
Tenants == {"t1", "t2"}

\* A row of tenant_monitors as db_to_oz_monitor returns it, with the
\* tenant it belongs to.
Monitor(tenant_id, name, addresses, nets) ==
  [tenant_id |-> tenant_id, name |-> name, addresses |-> addresses, networks |-> nets]

\* The rows a database can hold: (tenant_id, name) is unique; a name and
\* an address can occur for two tenants.
MonitorRows ==
  { Monitor("t1", "m1", {"0xa"}, {"net_a"}),
    Monitor("t2", "m2", {"0xa"}, {"net_a"}),
    Monitor("t2", "m1", {"0xb"}, {"net_a"}),
    Monitor("t1", "m3", {"0xb"}, {"net_b"}) }

Addresses == {"0xa", "0xb"}

\* What one trigger condition does on a match.
Outcomes == {"true", "false", "load_error", "execute_error"}

ConditionLists ==
  UNION { [1 .. n -> Outcomes] : n \in 0 .. MaxConditions }

\* TenantAwareMonitorRepository::update_tenant_filter: the argument is not
\* used and the filter stays what it was at construction.
update_tenant_filter(filter, tenant_ids) == filter

\* get_all_internal: WHERE m.tenant_id = ANY(filter), collected into a map
\* keyed by name (of two rows with one name the later one stays, and the
\* order of the rows is not fixed): the possible results.
get_all(db, filter) ==
  LET rows == { r \in db : r.tenant_id \in filter }
  IN  { m \in SUBSET rows :
          \A r \in rows : Cardinality({ x \in m : x.name = r.name }) = 1 }

\* load_tenant_monitors(tenant_id)
load_tenant_monitors(db, filter, tenant_id) ==
  get_all(db, update_tenant_filter(filter, {tenant_id}))

\* A get_tenant_context that reads the monitors from the repository at
\* every call.
get_tenant_context_unmemoized(cache, db, filter, tenant_id) ==
  load_tenant_monitors(db, filter, tenant_id)

\* The monitors of the context get_tenant_context(tenant_id) can return.
get_tenant_context(cache, db, filter, tenant_id) ==
  IF tenant_id \in DOMAIN cache
    THEN { cache[tenant_id] }
    ELSE load_tenant_monitors(db, filter, tenant_id)

cache_insert(cache, tenant_id, monitors) ==
  [t \in DOMAIN cache \cup {tenant_id} |->
     IF t = tenant_id THEN monitors ELSE cache[t]]

get_monitors_for_network(monitors, slug) ==
  { m \in monitors : slug \in m.networks }

\* filter_block of the filter service, for a block with one transaction
\* to the address to: a monitor matches when it watches that address.
filter_block(monitors_vec, to) == { m \in monitors_vec : to \in m.addresses }

\* evaluate_trigger_conditions on the outcomes of the conditions in order.
RECURSIVE evaluate_trigger_conditions(_)
evaluate_trigger_conditions(conditions) ==
  IF conditions = << >> THEN TRUE
  ELSE IF Head(conditions) \in {"load_error", "execute_error"} THEN TRUE
  ELSE IF Head(conditions) = "false" THEN FALSE
  ELSE evaluate_trigger_conditions(Tail(conditions))

TenantMonitorMatch(tenant_id, monitor) ==
  [tenant_id |-> tenant_id, monitor_name |-> monitor.name, owner |-> monitor.tenant_id]

RECURSIVE Copies(_, _)
Copies(n, x) == IF n = 0 THEN << >> ELSE << x >> \o Copies(n - 1, x)

\* process_block is called for the tenants tenant_ids, in that order.
process_block(network, to, tenant_ids) ==
  /\ processing = << >>
  /\ processing' = [network |-> network, to |-> to, tenant_ids |-> tenant_ids]
  /\ all_matches' = << >>
  /\ UNCHANGED << db_monitors, tenant_filter, monitor_cache, last_eval >>

\* One round of the loop of process_block: the context of the next
\* tenant, the filter service on its monitors of the network, and for
\* every match the first monitor of the context that watches the address
\* and the trigger conditions of that monitor.
process_tenant(conditions) ==
  /\ processing # << >>
  /\ processing.tenant_ids # << >>
  /\ LET tenant_id == Head(processing.tenant_ids)
     IN  \E monitors \in get_tenant_context(monitor_cache, db_monitors,
                                            tenant_filter, tenant_id) :
           LET of_network == get_monitors_for_network(monitors, processing.network)
               results    == filter_block(of_network, processing.to)
           IN  /\ monitor_cache' = cache_insert(monitor_cache, tenant_id, monitors)
               /\ processing' = [processing EXCEPT !.tenant_ids = Tail(@)]
               /\ IF results = {}
                    THEN UNCHANGED << all_matches, last_eval >>
                    ELSE \E found \in results :
                           /\ last_eval' =
                                [conditions |-> conditions,
                                 included |-> evaluate_trigger_conditions(conditions)]
                           /\ all_matches' =
                                IF evaluate_trigger_conditions(conditions)
                                  THEN all_matches \o
                                       Copies(Cardinality(results),
                                              TenantMonitorMatch(tenant_id, found))
                                  ELSE all_matches
  /\ UNCHANGED << db_monitors, tenant_filter >>

\* Ok(all_matches)
process_block_return ==
  /\ processing # << >>
  /\ processing.tenant_ids = << >>
  /\ processing' = << >>
  /\ UNCHANGED << db_monitors, tenant_filter, monitor_cache, all_matches, last_eval >>

\* A client or the filter service fails: the call returns the error.
process_block_error ==
  /\ processing # << >>
  /\ processing.tenant_ids # << >>
  /\ processing' = << >>
  /\ all_matches' = << >>
  /\ UNCHANGED << db_monitors, tenant_filter, monitor_cache, last_eval >>

reload_configurations(tenant_ids) ==
  /\ monitor_cache' = [t \in DOMAIN monitor_cache \ tenant_ids |-> monitor_cache[t]]
  /\ tenant_filter' = update_tenant_filter(tenant_filter, tenant_ids)
  /\ UNCHANGED << db_monitors, processing, all_matches, last_eval >>

TenantLists == { << "t1" >>, << "t2" >>, << "t1", "t2" >>, << "t2", "t1" >> }

\* A services instance for some tenants over some database, as a worker
\* creates it, processing one block after another.
InitTenant ==
  /\ SharedBlockWatcher_new
  /\ MonitorWorkerPool_new
  /\ CachedBlockClient_new
  /\ OrchestratorConfig_new
  /\ LoadBalancer_idle
  /\ WorkerTasks_new
  /\ TenantContext_none
  /\ SharedBlockWatcher_idle
  /\ OzMonitorServices_idle
  /\ LoadBalancer_new("ConsistentHashing")
  /\ \E db \in SUBSET MonitorRows : \E ids \in SUBSET Tenants \ {{}} :
       OzMonitorServices_new(db, ids)

NextTenant ==
  \/ \E n \in Slugs : \E to \in Addresses : \E ts \in TenantLists : process_block(n, to, ts) /\ UNCHANGED << watcher_vars, lb_vars, pool_vars, cache_vars, config_vars, lock_vars, task_vars, context_vars, run_vars, match_vars >>
  \/ \E c \in ConditionLists : process_tenant(c) /\ UNCHANGED << watcher_vars, lb_vars, pool_vars, cache_vars, config_vars, lock_vars, task_vars, context_vars, run_vars, match_vars >>
  \/ process_block_return /\ UNCHANGED << watcher_vars, lb_vars, pool_vars, cache_vars, config_vars, lock_vars, task_vars, context_vars, run_vars, match_vars >>
  \/ process_block_error /\ UNCHANGED << watcher_vars, lb_vars, pool_vars, cache_vars, config_vars, lock_vars, task_vars, context_vars, run_vars, match_vars >>
  \/ \E ts \in SUBSET Tenants \ {{}} : reload_configurations(ts) /\ UNCHANGED << watcher_vars, lb_vars, pool_vars, cache_vars, config_vars, lock_vars, task_vars, context_vars, run_vars, match_vars >>

SpecTenant == InitTenant /\ [][NextTenant]_vars

\* ========================================================== LoadBalancer
WorkerIds == {"w1", "w2"}

Strategies == {"RoundRobin", "LeastLoaded", "ConsistentHashing", "ActivityBased"}

\* activity_score() in units of 0.0001.
Scores == {2000, 9000}

HighActivity == 7000
MediumActivity == 3000

\* DefaultHasher over tenant_id.to_string(): a fixed function of the
\* tenant.
hash(tenant_id) ==
  CASE tenant_id = "t1" -> 4
    [] tenant_id = "t2" -> 7
    [] tenant_id = "t3" -> 9
    [] OTHER -> 12

\* The sequences that enumerate a set once.
Orders(S) ==
  { f \in [1 .. Cardinality(S) -> S] : \A i, j \in 1 .. Cardinality(S) : f[i] = f[j] => i = j }

\* worker_loads is kept as the sequence in which the HashMap iterates.
worker_ids(loads) == { loads[k].worker_id : k \in DOMAIN loads }

keys(loads) == [k \in DOMAIN loads |-> loads[k].worker_id]

WorkerMetrics(worker_id) == [worker_id |-> worker_id, tenant_count |-> 0]

\* HashMap::insert of a new key at position pos of the iteration order, or
\* over the value of a known key.
insert_worker(loads, worker_id, pos) ==
  IF worker_id \in worker_ids(loads)
    THEN [k \in DOMAIN loads |->
            IF loads[k].worker_id = worker_id THEN WorkerMetrics(worker_id) ELSE loads[k]]
    ELSE SubSeq(loads, 1, pos - 1) \o << WorkerMetrics(worker_id) >>
         \o SubSeq(loads, pos, Len(loads))

add_worker(worker_id) ==
  /\ \E pos \in 1 .. Len(worker_loads) + 1 :
       worker_loads' = insert_worker(worker_loads, worker_id, pos)
  /\ returned' = Return("add_worker", worker_id, "", {}, << >>)
  /\ UNCHANGED << assignments, tenant_metrics, tenant_worker_map, last_rebalance,
                  now, strategy >>

\* A retain that drops nothing.
retain_entries_all(map, kept) == map

\* HashMap::retain: the entries of the kept keys stay.
retain_entries(map, kept) == [k \in kept |-> map[k]]

remove_worker(worker_id) ==
  /\ worker_loads' = SelectSeq(worker_loads, LAMBDA m : m.worker_id # worker_id)
  /\ tenant_worker_map' = retain_entries(tenant_worker_map,
         { k \in DOMAIN tenant_worker_map : tenant_worker_map[k] # worker_id })
  /\ assignments' = retain_entries(assignments,
         { t \in DOMAIN assignments : assignments[t].worker_id # worker_id })
  /\ returned' = Return("remove_worker", worker_id, "",
                       { t \in DOMAIN assignments : assignments[t].worker_id = worker_id },
                       << >>)
  /\ UNCHANGED << tenant_metrics, last_rebalance, now, strategy >>

update_tenant_metrics(tenant_id, score) ==
  /\ tenant_metrics' = [t \in DOMAIN tenant_metrics \cup {tenant_id} |->
                          IF t = tenant_id THEN score ELSE tenant_metrics[t]]
  /\ returned' = Return("update_tenant_metrics", tenant_id, "", {}, << >>)
  /\ UNCHANGED << assignments, worker_loads, tenant_worker_map, last_rebalance,
                  now, strategy >>

NoWorkers == "No workers available"

\* min_by_key over the iteration order: the first worker with the least
\* key.
first_min(ids, key) ==
  LET k == CHOOSE i \in DOMAIN ids :
             /\ \A j \in DOMAIN ids : key[ids[i]] <= key[ids[j]]
             /\ \A j \in DOMAIN ids : j < i => key[ids[j]] > key[ids[i]]
  IN  ids[k]

tenant_count_of(loads, worker_id) ==
  IF worker_id \in worker_ids(loads)
    THEN LET k == CHOOSE i \in DOMAIN loads : loads[i].worker_id = worker_id
         IN  loads[k].tenant_count
    ELSE 0

round_robin_assignment(loads) ==
  IF loads = << >> THEN NoWorkers
  ELSE first_min(keys(loads), [w \in worker_ids(loads) |-> tenant_count_of(loads, w)])

\* A choice that falls back on a fixed worker when none is registered.
least_loaded_assignment_or_default(loads) ==
  IF loads = << >> THEN "w1"
  ELSE first_min(keys(loads),
                 [w \in worker_ids(loads) |-> 0 + 0 + tenant_count_of(loads, w)])

\* cpu_usage and memory_usage are 0.0 as add_worker sets them.
least_loaded_assignment(loads) ==
  IF loads = << >> THEN NoWorkers
  ELSE first_min(keys(loads),
                 [w \in worker_ids(loads) |-> 0 + 0 + tenant_count_of(loads, w)])

consistent_hash_assignment(map, loads, tenant_id) ==
  IF tenant_id \in DOMAIN map /\ map[tenant_id] \in worker_ids(loads)
    THEN map[tenant_id]
  ELSE IF loads = << >> THEN NoWorkers
  ELSE keys(loads)[(hash(tenant_id) % Len(loads)) + 1]

activity_based_assignment(metrics, map, loads, tenant_id) ==
  IF tenant_id \in DOMAIN metrics /\ metrics[tenant_id] > HighActivity
    THEN least_loaded_assignment(loads)
    ELSE consistent_hash_assignment(map, loads, tenant_id)

choose_worker(tenant_id) ==
  CASE strategy = "RoundRobin" -> round_robin_assignment(worker_loads)
    [] strategy = "LeastLoaded" -> least_loaded_assignment(worker_loads)
    [] strategy = "ConsistentHashing" ->
         consistent_hash_assignment(tenant_worker_map, worker_loads, tenant_id)
    [] OTHER ->
         activity_based_assignment(tenant_metrics, tenant_worker_map, worker_loads, tenant_id)

assignment_reason ==
  IF strategy \in {"RoundRobin", "ConsistentHashing"} THEN "Initial" ELSE "LoadRebalance"

\* TenantAssignment::new
TenantAssignment_new(tenant_id, worker_id, reason) ==
  [tenant_id |-> tenant_id, worker_id |-> worker_id, assigned_at |-> now,
   version |-> 1, reason |-> reason]

count_tenant(loads, worker_id) ==
  [k \in DOMAIN loads |->
     IF loads[k].worker_id = worker_id
       THEN [loads[k] EXCEPT !.tenant_count = @ + 1]
       ELSE loads[k]]

assign_tenant(tenant_id) ==
  LET worker_id == choose_worker(tenant_id)
  IN  IF worker_id = NoWorkers
        THEN /\ returned' = Return("assign_tenant", tenant_id, NoWorkers, {}, << >>)
             /\ UNCHANGED << assignments, worker_loads, tenant_metrics,
                             tenant_worker_map, last_rebalance, now, strategy >>
        ELSE /\ tenant_count_of(worker_loads, worker_id) < MaxCount
             /\ assignments' =
                  [t \in DOMAIN assignments \cup {tenant_id} |->
                     IF t = tenant_id
                       THEN TenantAssignment_new(tenant_id, worker_id, assignment_reason)
                       ELSE assignments[t]]
             /\ worker_loads' = count_tenant(worker_loads, worker_id)
             /\ returned' = Return("assign_tenant", tenant_id, worker_id, {}, << >>)
             /\ UNCHANGED << tenant_metrics, tenant_worker_map, last_rebalance,
                             now, strategy >>

\* A lookup that reads the affinity map in place of the assignments.
get_worker_for_tenant_by_affinity(tenant_id) ==
  IF tenant_id \in DOMAIN tenant_worker_map THEN tenant_worker_map[tenant_id] ELSE "None"

get_worker_for_tenant(tenant_id) ==
  IF tenant_id \in DOMAIN assignments THEN assignments[tenant_id].worker_id ELSE "None"

get_worker_assignments(worker_id) ==
  { t \in DOMAIN assignments : assignments[t].worker_id = worker_id }

\* A bucket sorted by descending score; tenants of equal score stay in the
\* order in which tenant_metrics iterates, which is any order.
sorted_bucket(metrics, bucket) ==
  { q \in Orders(bucket) :
      \A i, j \in DOMAIN q : i < j => metrics[q[i]] >= metrics[q[j]] }

high_activity(metrics) == { t \in DOMAIN metrics : metrics[t] > HighActivity }

medium_activity(metrics) ==
  { t \in DOMAIN metrics : metrics[t] <= HighActivity /\ metrics[t] > MediumActivity }

low_activity(metrics) == { t \in DOMAIN metrics : metrics[t] <= MediumActivity }

\* (score * 1000.0) as i64
score_key(score) == score \div 10

\* The placement loops of rebalance over the tenants in order: ids is the
\* order in which worker_scores iterates.
RECURSIVE place(_, _, _, _, _)
place(order, metrics, ids, worker_scores, new_assignments) ==
  IF order = << >> THEN new_assignments
  ELSE LET tenant_id == Head(order)
           worker_id == first_min(ids, [w \in DOMAIN worker_scores |-> score_key(worker_scores[w])])
       IN  place(Tail(order), metrics, ids,
                 [worker_scores EXCEPT ![worker_id] = @ + metrics[tenant_id]],
                 [new_assignments EXCEPT ![worker_id] = Append(@, tenant_id)])

\* A rebuild that leaves out assignments.clear(): the entries of tenants
\* that the distribution does not place stay.
from_distribution_without_clear(new_assignments) ==
  LET tenants == UNION { { new_assignments[w][k] : k \in DOMAIN new_assignments[w] } :
                         w \in DOMAIN new_assignments }
  IN  [t \in tenants \cup DOMAIN assignments |->
         IF t \in tenants
           THEN TenantAssignment_new(
                  t,
                  CHOOSE w \in DOMAIN new_assignments :
                    \E k \in DOMAIN new_assignments[w] : new_assignments[w][k] = t,
                  "LoadRebalance")
           ELSE assignments[t]]

\* The assignments table rebuilt from a distribution.
from_distribution(new_assignments) ==
  [t \in UNION { { new_assignments[w][k] : k \in DOMAIN new_assignments[w] } :
                 w \in DOMAIN new_assignments } |->
     TenantAssignment_new(
       t,
       CHOOSE w \in DOMAIN new_assignments :
         \E k \in DOMAIN new_assignments[w] : new_assignments[w][k] = t,
       "LoadRebalance")]

rebalance ==
  IF worker_loads = << >>
    THEN /\ returned' = Return("rebalance", "", "", {}, << >>)
         /\ UNCHANGED << assignments, worker_loads, tenant_metrics, tenant_worker_map,
                         last_rebalance, now, strategy >>
    ELSE \E high \in sorted_bucket(tenant_metrics, high_activity(tenant_metrics)) :
         \E medium \in sorted_bucket(tenant_metrics, medium_activity(tenant_metrics)) :
         \E low \in sorted_bucket(tenant_metrics, low_activity(tenant_metrics)) :
         \E ids \in Orders(worker_ids(worker_loads)) :
           LET new_assignments ==
                 place(high \o medium \o low, tenant_metrics, ids,
                       [w \in worker_ids(worker_loads) |-> 0],
                       [w \in worker_ids(worker_loads) |-> << >>])
           IN  /\ assignments' = from_distribution(new_assignments)
               /\ last_rebalance' = now
               /\ returned' = Return("rebalance", "", "", {}, new_assignments)
               /\ UNCHANGED << worker_loads, tenant_metrics, tenant_worker_map,
                               now, strategy >>

\* Time passes.
tick ==
  /\ now < MaxTime
  /\ now' = now + 1
  /\ UNCHANGED << assignments, worker_loads, tenant_metrics, tenant_worker_map,
                  last_rebalance, returned, strategy >>

\* rebalance as a function of the metrics: a balancer with both workers
\* registered and metrics reported for some tenants, then rebalanced.
MeteredTenants == {"t1", "t2", "t3", "t4"}

FineScores == {1000, 2000, 5000, 8000, 9000, 9001}

InitRebalance ==
  /\ SharedBlockWatcher_new
  /\ MonitorWorkerPool_new
  /\ CachedBlockClient_new
  /\ OrchestratorConfig_new
  /\ LoadBalancer_idle
  /\ WorkerTasks_new
  /\ TenantContext_none
  /\ SharedBlockWatcher_idle
  /\ OzMonitorServices_idle
  /\ OzMonitorServices_new({}, {})
  /\ assignments = << >>
  /\ \E ids \in Orders(WorkerIds) : worker_loads = [k \in DOMAIN ids |-> WorkerMetrics(ids[k])]
  /\ \E ts \in SUBSET MeteredTenants : tenant_metrics \in [ts -> FineScores]
  /\ tenant_worker_map = << >>
  /\ now = 0
  /\ last_rebalance = now
  /\ returned = Return("new", "", "", {}, << >>)
  /\ strategy = "ConsistentHashing"

NextRebalance == rebalance /\ UNCHANGED << watcher_vars, oz_vars, pool_vars, cache_vars, config_vars, lock_vars, task_vars, context_vars, run_vars, match_vars >>

SpecRebalance == InitRebalance /\ [][NextRebalance]_vars

\* A balancer with any strategy, driven through its public interface.
InitBalancer ==
  /\ SharedBlockWatcher_new
  /\ MonitorWorkerPool_new
  /\ CachedBlockClient_new
  /\ OrchestratorConfig_new
  /\ LoadBalancer_idle
  /\ WorkerTasks_new
  /\ TenantContext_none
  /\ SharedBlockWatcher_idle
  /\ OzMonitorServices_idle
  /\ OzMonitorServices_new({}, {})
  /\ \E st \in Strategies : LoadBalancer_new(st)

NextBalancer ==
  \/ \E w \in WorkerIds : add_worker(w) /\ UNCHANGED << watcher_vars, oz_vars, pool_vars, cache_vars, config_vars, lock_vars, task_vars, context_vars, run_vars, match_vars >>
  \/ \E w \in WorkerIds : remove_worker(w) /\ UNCHANGED << watcher_vars, oz_vars, pool_vars, cache_vars, config_vars, lock_vars, task_vars, context_vars, run_vars, match_vars >>
  \/ \E t \in Tenants : \E sc \in Scores : update_tenant_metrics(t, sc) /\ UNCHANGED << watcher_vars, oz_vars, pool_vars, cache_vars, config_vars, lock_vars, task_vars, context_vars, run_vars, match_vars >>
  \/ \E t \in Tenants : assign_tenant(t) /\ UNCHANGED << watcher_vars, oz_vars, pool_vars, cache_vars, config_vars, lock_vars, task_vars, context_vars, run_vars, match_vars >>
  \/ rebalance /\ UNCHANGED << watcher_vars, oz_vars, pool_vars, cache_vars, config_vars, lock_vars, task_vars, context_vars, run_vars, match_vars >>
  \/ tick /\ UNCHANGED << watcher_vars, oz_vars, pool_vars, cache_vars, config_vars, lock_vars, task_vars, context_vars, run_vars, match_vars >>

SpecBalancer == InitBalancer /\ [][NextBalancer]_vars

\* ================================================================ C1
\* A task is inside a scan iteration once it has read the loop condition
\* and found it true.
Scanning(i) == tasks[i].pc \in {"fetch", "send", "update"}

ScanLoops(slug) == { i \in TaskIds : Slug(i) = slug /\ Scanning(i) }

\* C1: for every slug, at most one scan loop is inside an iteration at
\* any instant, whatever add_network, remove_network and start() calls
\* were made.
C1_SingleScanLoop == \A s \in Slugs : Cardinality(ScanLoops(s)) <= 1

\* ================================================================ C2
\* C2: while a network stays registered, no step lowers its
\* last_processed_block.
C2_CursorNeverDecreases ==
  [][\A s \in DOMAIN networks \cap DOMAIN networks' :
       networks'[s].last_processed_block >= networks[s].last_processed_block]_vars

\* ================================================================ C3
Sends(i) == tasks[i].pc = "send" /\ tasks'[i].pc = "update"

\* C3: every event handed to send for a network whose previous event
\* ended at height b starts at height b + 1.
C3_EventsContiguous ==
  [][\A i \in TaskIds :
       Sends(i) /\ Slug(i) \in DOMAIN emitted
         => tasks[i].start_block = emitted[Slug(i)] + 1]_vars

\* ================================================================ C4
Updates(i) == tasks[i].pc = "update" /\ tasks'[i].pc = "sleep"

\* max(0, L - c) for the latest height and the confirmations of a task.
ConfirmedHeight(t) ==
  IF t.latest_block - t.network.confirmation_blocks > 0
    THEN t.latest_block - t.network.confirmation_blocks
    ELSE 0

\* The task is in an iteration that read the cursor 0 and has blocks.
ColdStart(t) == t.pc \in {"send", "update"} /\ t.last_processed_block = 0

\* C4: an iteration that read last_processed_block = 0 and got the latest
\* height L never ends for want of new blocks; the range it fetches is
\* the single height max(0, L - c); it hands exactly one event, of that
\* height, to send and sets the cursor to that height; and no event starts
\* below the end of the event before it.
C4_ColdStartSingleHeight ==
  [][\A i \in TaskIds :
       /\ tasks'[i].stage = "no_new_blocks" => tasks'[i].last_processed_block > 0
       /\ ColdStart(tasks'[i]) =>
            /\ tasks'[i].start_block = ConfirmedHeight(tasks'[i])
            /\ tasks'[i].end_block = ConfirmedHeight(tasks'[i])
       /\ Sends(i) /\ ColdStart(tasks[i]) =>
            /\ tasks[i].sent = 0 /\ tasks'[i].sent = 1
            /\ emitted'[Slug(i)] = ConfirmedHeight(tasks[i])
            /\ receiver_count(rx) > 0 =>
                 chan'[Len(chan')] = [network |-> Slug(i),
                                      start |-> ConfirmedHeight(tasks[i]),
                                      end |-> ConfirmedHeight(tasks[i])]
       /\ Updates(i) /\ ColdStart(tasks[i]) =>
            /\ tasks[i].sent = 1
            /\ tasks'[i].result = Ok(1)
            /\ Slug(i) \in DOMAIN networks' =>
                 networks'[Slug(i)].last_processed_block = ConfirmedHeight(tasks[i])
       /\ Sends(i) /\ Slug(i) \in DOMAIN emitted =>
            tasks[i].start_block >= emitted[Slug(i)]]_vars

\* ================================================================ C5
\* The task is in an iteration that read a cursor p > 0 and has blocks.
Advancing(t) == t.pc \in {"send", "update"} /\ t.last_processed_block > 0

\* C5: an iteration that read the cursor p > 0 and found the latest
\* confirmed height q ends for want of new blocks exactly when p + 1 > q,
\* and then sends nothing and leaves the cursor; otherwise the range it
\* fetches is [p + 1 .. min(q, p + max_blocks_per_fetch)], the event it
\* sends is that range and the cursor it writes is the end of that range.
C5_RangeBoundedByMaxBlocks ==
  [][\A i \in TaskIds :
       /\ tasks'[i].stage = "no_new_blocks" =>
            /\ tasks'[i].last_processed_block + 1 > ConfirmedHeight(tasks'[i])
            /\ tasks'[i].sent = 0
            /\ tasks'[i].result = Ok(0)
            /\ tasks[i].pc = "fetch" =>
                 networks' = networks /\ emitted' = emitted /\ chan' = chan
       /\ Advancing(tasks'[i]) =>
            LET p == tasks'[i].last_processed_block
                q == ConfirmedHeight(tasks'[i])
            IN  /\ q >= p + 1
                /\ tasks'[i].start_block = p + 1
                /\ tasks'[i].end_block = Min(q, p + max_blocks_per_fetch)
                /\ tasks'[i].end_block - tasks'[i].start_block + 1 <= max_blocks_per_fetch
       /\ Sends(i) /\ Advancing(tasks[i]) =>
            /\ tasks'[i].sent = 1
            /\ emitted'[Slug(i)] = tasks[i].end_block
            /\ tasks'[i].start_block = tasks[i].start_block
            /\ tasks'[i].end_block = tasks[i].end_block
       /\ Updates(i) /\ Advancing(tasks[i]) =>
            /\ Slug(i) \in DOMAIN networks' =>
                 networks'[Slug(i)].last_processed_block = tasks[i].end_block
            /\ tasks'[i].result = Ok(tasks[i].end_block - tasks[i].start_block + 1)]_vars

\* An iteration has sent a range that max_blocks_per_fetch cut short of
\* the latest confirmed height.
C5_Witness ==
  \E i \in TaskIds :
    /\ tasks[i].pc = "update"
    /\ tasks[i].last_processed_block > 0
    /\ tasks[i].start_block = tasks[i].last_processed_block + 1
    /\ tasks[i].end_block = tasks[i].last_processed_block + max_blocks_per_fetch
    /\ tasks[i].end_block < ConfirmedHeight(tasks[i])
    /\ tasks[i].sent = 1

\* ================================================================ C6
\* The iteration of the task ended because retry_with_backoff gave up.
GaveUp(t) == t.pc = "sleep" /\ t.stage \in {"get_latest_block_number", "get_blocks"}

\* C6: an iteration whose RPC call fails on every attempt has made
\* exactly retry_attempts attempts of that call, ends with an error
\* without sending an event and without changing any cursor; the task
\* then only sleeps, and its next step is a new iteration as long as the
\* network is registered and running, which reads the cursor again.
C6_ExhaustedRetriesKeepCursor ==
  [][\A i \in TaskIds :
       /\ ~ tasks'[i].rpc.ok => GaveUp(tasks'[i])
       /\ GaveUp(tasks'[i]) /\ tasks[i].pc = "fetch" =>
            /\ tasks'[i].rpc.calls = retry_attempts
            /\ Len(tasks'[i].rpc.delays) = retry_attempts - 1
            /\ tasks'[i].result = Err
            /\ tasks'[i].sent = 0
            /\ networks' = networks /\ emitted' = emitted /\ chan' = chan
       /\ GaveUp(tasks[i]) /\ tasks'[i] # tasks[i] =>
            /\ networks' = networks /\ emitted' = emitted /\ chan' = chan
            /\ loop_continues(networks, Slug(i)) => tasks'[i].pc = "fetch"
       /\ tasks[i].pc = "fetch" /\ tasks'[i].pc = "send" =>
            tasks'[i].last_processed_block = read_cursor(networks, Slug(i))]_vars

\* An iteration gave up after retry_attempts failed calls and the cursor
\* it read is still in place.
C6_Witness ==
  \E i \in TaskIds :
    /\ GaveUp(tasks[i])
    /\ tasks[i].rpc.calls = retry_attempts
    /\ tasks[i].result = Err
    /\ Slug(i) \in DOMAIN networks
    /\ networks[Slug(i)].last_processed_block > 0
    /\ Slug(i) \in DOMAIN emitted
    /\ emitted[Slug(i)] = networks[Slug(i)].last_processed_block

\* ================================================================ C7
\* C7 as stated: the wait before attempt k is retry_delay_ms * 2^(k-1).
C7_DelayBeforeAttempt ==
  \A i \in TaskIds :
    \A k \in 2 .. tasks[i].rpc.calls :
      tasks[i].rpc.delays[k - 1] = retry_delay_ms * Pow2(k - 1)

RECURSIVE Sum(_)
Sum(seq) == IF seq = << >> THEN 0 ELSE Head(seq) + Sum(Tail(seq))

\* C7: retry_with_backoff makes at most retry_attempts calls, does not
\* wait before the first, waits retry_delay_ms * 2^(k-1) after the k-th
\* failed call when another call follows, and returns the result of the
\* first call that succeeds; a call that succeeds on attempt
\* retry_attempts has waited retry_delay_ms * (2^(retry_attempts-1) - 1)
\* in all; the iteration sends one event and writes the cursor once.
C7_BackoffAfterFailure ==
  [][\A i \in TaskIds :
       LET r == tasks'[i].rpc
       IN  /\ r.calls <= retry_attempts
           /\ r.calls > 0 => Len(r.delays) = r.calls - 1
           /\ \A k \in 1 .. Len(r.delays) : r.delays[k] = retry_delay_ms * Pow2(k - 1)
           /\ r.ok /\ r.calls = retry_attempts =>
                Sum(r.delays) = retry_delay_ms * (Pow2(retry_attempts - 1) - 1)
           /\ r.ok => r.value # Stale
           /\ tasks'[i].sent <= 1
           /\ Updates(i) => tasks[i].sent = 1
           /\ Slug(i) \in DOMAIN networks \cap DOMAIN networks'
              /\ networks'[Slug(i)].last_processed_block # networks[Slug(i)].last_processed_block
              => \E j \in TaskIds : Slug(j) = Slug(i) /\ Updates(j)]_vars

\* The fetch of the blocks succeeded on the last of retry_attempts
\* attempts, after the waits retry_delay_ms and 2 * retry_delay_ms.
C7_Witness ==
  \E i \in TaskIds :
    /\ tasks[i].pc = "send"
    /\ tasks[i].rpc.ok
    /\ tasks[i].rpc.calls = 3
    /\ tasks[i].rpc.delays = << retry_delay_ms, 2 * retry_delay_ms >>
    /\ tasks[i].rpc.value = 1

\* ================================================================ C8
\* C8: a send to a channel without receivers does not end the iteration;
\* the cursor is then set to the end of the range and the iteration
\* returns the number of blocks, exactly as after a send with receivers,
\* and the next iteration starts from that cursor.
C8_NoSubscriberStillAdvances ==
  [][\A i \in TaskIds :
       /\ tasks[i].pc = "send" /\ tasks'[i] # tasks[i] =>
            /\ tasks'[i].pc = "update"
            /\ tasks'[i].receivers = receiver_count(rx)
            /\ receiver_count(rx) = 0 => chan' = chan
       /\ Updates(i) =>
            /\ Slug(i) \in DOMAIN networks' =>
                 networks'[Slug(i)].last_processed_block = tasks[i].end_block
            /\ tasks'[i].result = Ok(tasks[i].end_block - tasks[i].start_block + 1)
            /\ tasks[i].end_block >= tasks[i].start_block
       /\ tasks[i].pc = "sleep" /\ tasks[i].stage = "done" /\ tasks'[i] # tasks[i]
          /\ loop_continues(networks, Slug(i)) => tasks'[i].pc = "fetch"]_vars

\* An event was sent while nobody was subscribed and the iteration is
\* about to write the cursor.
C8_Witness ==
  \E i \in TaskIds :
    /\ tasks[i].pc = "update"
    /\ tasks[i].receivers = 0
    /\ tasks[i].sent = 1
    /\ tasks[i].end_block > tasks[i].start_block
    /\ chan = << >>

\* ================================================================ C9
\* Some receiver has channel_buffer_size events it did not read.
BufferFull(rxs) ==
  \E r \in Subs : rxs[r].active /\ rxs[r].unread >= channel_buffer_size

\* C9 as stated: no send completes while a receiver has
\* channel_buffer_size unread events.
C9_SendWaitsForSpace ==
  [][\A i \in TaskIds : Sends(i) => ~ BufferFull(rx)]_vars

\* C9: a send is never held back; when a receiver has all the slots of
\* the channel unread the send still completes in one step, stores the
\* new event as the newest one, and that receiver loses its oldest
\* event (it is marked lagged and keeps a full buffer); the cursor is
\* written by the step after the send, whether or not a receiver has
\* read anything.
C9_SendOverwritesOldest ==
  [][\A i \in TaskIds :
       /\ tasks[i].pc = "send" => ENABLED broadcast(i)
       /\ Sends(i) =>
            /\ networks' = networks
            /\ Len(chan') <= Capacity
            /\ receiver_count(rx) > 0 =>
                 chan'[Len(chan')] = BlockEvent(tasks[i].network,
                                                tasks[i].start_block,
                                                tasks[i].end_block)
            /\ \A r \in Subs :
                 rx[r].active =>
                   IF rx[r].unread >= Capacity
                     THEN rx'[r].lagged /\ rx'[r].unread = Capacity
                     ELSE rx'[r].unread = rx[r].unread + 1 /\ rx'[r].lagged = rx[r].lagged
       /\ Updates(i) /\ BufferFull(rx) /\ Slug(i) \in DOMAIN networks' =>
            networks'[Slug(i)].last_processed_block = tasks[i].end_block]_vars

\* A send has completed into a full channel: the receiver lagged and the
\* task is about to write the cursor.
C9_Witness ==
  \E i \in TaskIds : \E r \in Subs :
    /\ tasks[i].pc = "update"
    /\ tasks[i].receivers > 0
    /\ rx[r].active /\ rx[r].lagged
    /\ rx[r].unread = Capacity
    /\ chan[Len(chan)].end = tasks[i].end_block

\* =============================================================== C10
\* C10: the state of a registered network changes only by a scan task of
\* its slug writing the cursor, by start_network_watcher setting
\* is_running as it spawns a task, or by a task clearing is_running as it
\* exits, so add_network of a registered slug changes nothing; a slug
\* that becomes registered gets its descriptor, last_processed_block = 0
\* and is_running = FALSE, and that step changes no task, no handle and
\* no other network.
C10_AddNetworkFrame ==
  [][/\ \A s \in DOMAIN networks \cap DOMAIN networks' :
         networks'[s] # networks[s] =>
           \/ \E i \in TaskIds :
                /\ Slug(i) = s /\ Updates(i)
                /\ networks'[s] = [networks[s] EXCEPT
                                     !.last_processed_block = tasks[i].end_block]
           \/ /\ Len(tasks') = Len(tasks) + 1
              /\ tasks'[Len(tasks')].network.slug = s
              /\ networks'[s] = [networks[s] EXCEPT !.is_running = TRUE]
           \/ \E i \in TaskIds :
                /\ Slug(i) = s /\ tasks[i].pc = "exit" /\ tasks'[i].pc = "done"
                /\ networks'[s] = [networks[s] EXCEPT !.is_running = FALSE]
     /\ \A s \in DOMAIN networks' \ DOMAIN networks :
          /\ networks'[s].network.slug = s
          /\ networks'[s].last_processed_block = 0
          /\ networks'[s].is_running = FALSE
          /\ tasks' = tasks
          /\ watcher_handles' = watcher_handles
          /\ starts' = starts
          /\ \A o \in DOMAIN networks : networks'[o] = networks[o]]_vars

\* A second network was added while the scan loop of the first one was
\* inside an iteration: it is registered, not running and at cursor 0,
\* and the first network kept its cursor and its loop.
C10_Witness ==
  /\ DOMAIN networks = Slugs
  /\ networks[NetB.slug].last_processed_block = 0
  /\ networks[NetB.slug].is_running = FALSE
  /\ networks[NetA.slug].last_processed_block > 0
  /\ networks[NetA.slug].is_running
  /\ \E i \in TaskIds : Slug(i) = NetA.slug /\ Scanning(i)
  /\ \A i \in TaskIds : Slug(i) # NetB.slug

\* =============================================================== C11
\* The task reads its loop condition.
Checks(i) == tasks[i].pc = "sleep" /\ tasks'[i].pc # "sleep"

\* C11: a step that removes a slug deletes its state and touches no other
\* network, no handle and no channel; a task whose network was removed
\* leaves the loop at its next read of the loop condition, and a task
\* that has left the loop sends nothing; a step that removes nothing
\* leaves the set of slugs or grows it.
C11_RemovedLoopTerminates ==
  [][/\ \A s \in DOMAIN networks \ DOMAIN networks' :
          /\ \A o \in DOMAIN networks \ {s} :
               o \in DOMAIN networks' /\ networks'[o] = networks[o]
          /\ watcher_handles' = watcher_handles /\ chan' = chan /\ rx' = rx
          /\ \A i \in TaskIds : tasks'[i].pc = tasks[i].pc
     /\ \A i \in TaskIds :
          /\ tasks[i].removed /\ Checks(i) => tasks'[i].pc = "exit"
          /\ tasks[i].pc \in {"exit", "done"} =>
               tasks'[i].pc \in {"exit", "done"} /\ tasks'[i].sent = 0]_vars

\* =============================================================== C12
\* C12: every match process_block has collected for tenant T names a
\* monitor that belongs to T.
C12_MatchesOfOwnTenant ==
  \A k \in DOMAIN all_matches : all_matches[k].owner = all_matches[k].tenant_id

\* =============================================================== C13
\* C13: a raw match is excluded exactly when one of the monitor's
\* conditions evaluates to false.
C13_ExcludedIffSomeFalse ==
  last_eval # << >> =>
    (~ last_eval.included <=>
       \E k \in DOMAIN last_eval.conditions : last_eval.conditions[k] = "false")

\* =============================================================== C14
\* C14: tenant t is listed by get_worker_assignments(w) exactly when
\* get_worker_for_tenant(t) is w, no tenant is listed for two workers,
\* and get_worker_for_tenant is None exactly for the tenants without an
\* assignment.
C14_LookupsAgree ==
  /\ \A t \in Tenants : \A w \in WorkerIds :
       t \in get_worker_assignments(w) <=> get_worker_for_tenant(t) = w
  /\ \A t \in Tenants : \A w1, w2 \in WorkerIds :
       t \in get_worker_assignments(w1) /\ t \in get_worker_assignments(w2) => w1 = w2
  /\ \A t \in Tenants :
       get_worker_for_tenant(t) = "None" <=> t \notin DOMAIN assignments
  /\ \A t \in DOMAIN assignments : assignments[t].tenant_id = t

\* One tenant is assigned after a rebalance and an assign_tenant, the
\* other is not.
C14_Witness ==
  /\ last_rebalance > 0
  /\ \E t \in Tenants : \E w \in WorkerIds :
       /\ returned.op = "assign_tenant" /\ returned.arg = t /\ returned.worker = w
       /\ get_worker_for_tenant(t) = w
       /\ get_worker_assignments(w) = {t}
  /\ \E t \in Tenants : get_worker_for_tenant(t) = "None"

\* =============================================================== C15
\* The step is a call that assigns tenant t: a successful assign_tenant(t)
\* or a rebalance that places t.
Assigns(t) ==
  \/ /\ returned'.op = "assign_tenant"
     /\ returned'.arg = t
     /\ returned'.worker # NoWorkers
     /\ assignments' # assignments
  \/ /\ returned'.op = "rebalance"
     /\ last_rebalance' # last_rebalance
     /\ t \in DOMAIN assignments'

\* C15: the first assignment of a tenant has version 1, and an assignment
\* that replaces an earlier one of the same tenant has the earlier
\* version plus one.
C15_VersionIncrements ==
  [][\A t \in Tenants :
       Assigns(t) =>
         assignments'[t].version =
           IF t \in DOMAIN assignments THEN assignments[t].version + 1 ELSE 1]_vars

\* =============================================================== C16
\* The position of a worker id in the lexicographic order of the ids.
worker_rank(worker_id) == IF worker_id = "w1" THEN 1 ELSE 2

\* The worker ids of the registry as a sorted list.
sorted_workers(loads) ==
  CHOOSE q \in Orders(worker_ids(loads)) :
    \A i, j \in DOMAIN q : i < j => worker_rank(q[i]) < worker_rank(q[j])

\* C16: under ConsistentHashing, for a tenant without affinity,
\* assign_tenant returns the worker at index hash(tenant) mod n of the
\* sorted list of the n registered worker ids.
C16_HashIndexOfSortedWorkers ==
  /\ strategy = "ConsistentHashing"
  /\ returned.op = "assign_tenant"
  /\ returned.worker # NoWorkers
  /\ returned.arg \notin DOMAIN tenant_worker_map
  => returned.worker =
       sorted_workers(worker_loads)[(hash(returned.arg) % Len(worker_loads)) + 1]

\* =============================================================== C17
\* C17: a successful assign_tenant(T) under ConsistentHashing that returns
\* W leaves T -> W in the affinity map, and when T was assigned by an
\* earlier assign_tenant to a worker that is still registered, the call
\* returns that worker.
C17_AffinityRecorded ==
  [][\A t \in Tenants :
       /\ strategy = "ConsistentHashing"
       /\ returned'.op = "assign_tenant"
       /\ returned'.arg = t
       /\ returned'.worker # NoWorkers
       /\ worker_loads' # worker_loads
       => /\ t \in DOMAIN tenant_worker_map'
          /\ tenant_worker_map'[t] = returned'.worker
          /\ (/\ t \in DOMAIN assignments
              /\ assignments[t].reason = "Initial"
              /\ assignments[t].worker_id \in worker_ids(worker_loads))
             => returned'.worker = assignments[t].worker_id]_vars

\* =============================================================== C18
\* C18: a rebalance that replaces the assignments after an earlier one
\* comes at least min_rebalance_interval after it. The balancer is made
\* at time 0, so a later last_rebalance is the time of a rebalance.
C18_RebalancesApart ==
  [][/\ last_rebalance > 0
     /\ last_rebalance' # last_rebalance
     => last_rebalance' - last_rebalance >= min_rebalance_interval]_vars

\* =============================================================== C19
\* The tenants of a distribution.
placed(distribution) ==
  UNION { { distribution[w][k] : k \in DOMAIN distribution[w] } : w \in DOMAIN distribution }

\* The step is a call of rebalance: of the other steps only tick leaves
\* that call in returned.
Rebalances == returned'.op = "rebalance" /\ now' = now

\* C19: a rebalance with a registered worker leaves exactly the returned
\* distribution in the assignments: each tenant of it once, on the
\* registered worker that lists it, with reason LoadRebalance and made by
\* this call, and last_rebalance is the time of the call; with no worker
\* it returns the empty distribution and changes nothing.
C19_RebalanceReplacesAssignments ==
  [][Rebalances
     => IF worker_loads = << >>
          THEN /\ returned'.distribution = << >>
               /\ UNCHANGED << assignments, worker_loads, tenant_metrics,
                               tenant_worker_map, last_rebalance >>
          ELSE /\ DOMAIN returned'.distribution = worker_ids(worker_loads)
               /\ DOMAIN assignments' = placed(returned'.distribution)
               /\ \A t \in DOMAIN assignments' :
                    /\ \E w \in DOMAIN returned'.distribution :
                         /\ assignments'[t].worker_id = w
                         /\ Cardinality({ k \in DOMAIN returned'.distribution[w] :
                                            returned'.distribution[w][k] = t }) = 1
                    /\ \A w \in DOMAIN returned'.distribution :
                         w # assignments'[t].worker_id =>
                           \A k \in DOMAIN returned'.distribution[w] : returned'.distribution[w][k] # t
                    /\ assignments'[t].reason = "LoadRebalance"
                    /\ assignments'[t].assigned_at = now
                    /\ assignments'[t].version = 1
               /\ last_rebalance' = now]_vars

\* A rebalance after time 0 has spread both tenants over two workers, one
\* of which had been assigned by assign_tenant before.
C19_Witness ==
  /\ returned.op = "rebalance"
  /\ Len(worker_loads) = 2
  /\ \E k \in DOMAIN worker_loads : worker_loads[k].tenant_count > 0
  /\ DOMAIN assignments = Tenants
  /\ \A w \in WorkerIds : Cardinality(get_worker_assignments(w)) = 1
  /\ \A t \in Tenants : assignments[t].assigned_at = now
  /\ last_rebalance = now
  /\ now > 0

\* =============================================================== C20
\* The accumulated score of worker w in a distribution, counting the
\* tenants that upto marks.
accumulated(distribution, w, upto) ==
  Sum([k \in 1 .. Len(distribution[w]) |->
         IF upto[distribution[w][k]] THEN tenant_metrics[distribution[w][k]] ELSE 0])

\* High, medium and low activity as 3, 2 and 1.
bucket(score) == IF score > HighActivity THEN 3 ELSE IF score > MediumActivity THEN 2 ELSE 1

\* C20: rebalance places the high bucket, then the medium, then the low,
\* each in descending score (the lists of the distribution follow that
\* order), and every tenant goes onto a worker whose accumulated score at
\* that point is the smallest.
C20_PlacedOnSmallestScore ==
  [][Rebalances =>
       \E order \in Orders(DOMAIN tenant_metrics) :
         /\ \A i, j \in DOMAIN order :
              i < j =>
                \/ bucket(tenant_metrics[order[i]]) > bucket(tenant_metrics[order[j]])
                \/ /\ bucket(tenant_metrics[order[i]]) = bucket(tenant_metrics[order[j]])
                   /\ tenant_metrics[order[i]] >= tenant_metrics[order[j]]
         /\ \A w \in DOMAIN returned'.distribution :
              \A a, b \in DOMAIN returned'.distribution[w] :
                a < b =>
                  \E i, j \in DOMAIN order :
                    /\ i < j
                    /\ order[i] = returned'.distribution[w][a]
                    /\ order[j] = returned'.distribution[w][b]
         /\ \A i \in DOMAIN order :
              LET before == [t \in DOMAIN tenant_metrics |->
                               \E j \in 1 .. i - 1 : order[j] = t]
                  w == assignments'[order[i]].worker_id
              IN  \A o \in DOMAIN returned'.distribution :
                    accumulated(returned'.distribution, w, before)
                      <= accumulated(returned'.distribution, o, before)]_vars

\* ===================================================== needs_rebalancing
\* LoadBalancerConfig.rebalance_threshold, in percent (default 0.2).
rebalance_threshold == 20

LoadedWorkers == {"w1", "w2", "w3"}

\* The tenant counts that workers report.
Loads == {0, 1, 5, 6}

\* HashMap::insert of reported metrics: a new key at position pos of the
\* iteration order, or over the value of a known key.
insert_metrics(loads, metrics, pos) ==
  IF metrics.worker_id \in worker_ids(loads)
    THEN [k \in DOMAIN loads |->
            IF loads[k].worker_id = metrics.worker_id THEN metrics ELSE loads[k]]
    ELSE SubSeq(loads, 1, pos - 1) \o << metrics >> \o SubSeq(loads, pos, Len(loads))

update_worker_load(metrics) ==
  /\ \E pos \in 1 .. Len(worker_loads) + 1 :
       worker_loads' = insert_metrics(worker_loads, metrics, pos)
  /\ returned' = Return("update_worker_load", metrics.worker_id, "", {}, << >>)
  /\ UNCHANGED << assignments, tenant_metrics, tenant_worker_map, last_rebalance,
                  now, strategy >>

\* loads.iter().fold(0.0, |a, b| a.max(b))
RECURSIVE fold_max(_, _)
fold_max(a, loads) ==
  IF loads = << >> THEN a
  ELSE fold_max(IF Head(loads) > a THEN Head(loads) ELSE a, Tail(loads))

\* loads.iter().fold(f64::MAX, |a, b| a.min(b)); -1 stands for f64::MAX.
RECURSIVE fold_min(_, _)
fold_min(a, loads) ==
  IF loads = << >> THEN a
  ELSE fold_min(IF a = -1 \/ Head(loads) < a THEN Head(loads) ELSE a, Tail(loads))

\* With the interval check on a strictly longer wait.
needs_rebalancing_after_interval(time, last, worker_metrics) ==
  IF time - last <= min_rebalance_interval THEN FALSE
  ELSE IF Len(worker_metrics) < 2 THEN FALSE
  ELSE LET loads == [k \in DOMAIN worker_metrics |-> worker_metrics[k].tenant_count]
       IN  /\ Sum(loads) # 0
           /\ (fold_max(0, loads) - fold_min(-1, loads)) * Len(loads) * 100
                > rebalance_threshold * Sum(loads)

\* imbalance = (max_load - min_load) / avg_load with avg_load = sum / len;
\* imbalance > threshold is compared after multiplying by sum and 100.
\* With a sum of 0 the quotient is 0.0 / 0.0 = NaN, which is greater than
\* nothing.
needs_rebalancing(time, last, worker_metrics) ==
  IF time - last < min_rebalance_interval THEN FALSE
  ELSE IF Len(worker_metrics) < 2 THEN FALSE
  ELSE LET loads == [k \in DOMAIN worker_metrics |-> worker_metrics[k].tenant_count]
       IN  /\ Sum(loads) # 0
           /\ (fold_max(0, loads) - fold_min(-1, loads)) * Len(loads) * 100
                > rebalance_threshold * Sum(loads)

call_needs_rebalancing ==
  /\ returned' = ReturnBool("needs_rebalancing",
                            needs_rebalancing(now, last_rebalance, worker_loads))
  /\ UNCHANGED << assignments, worker_loads, tenant_metrics, tenant_worker_map,
                  last_rebalance, now, strategy >>

\* A balancer whose workers report their load, asked whether to rebalance.
InitNeeds ==
  /\ SharedBlockWatcher_new
  /\ MonitorWorkerPool_new
  /\ CachedBlockClient_new
  /\ OrchestratorConfig_new
  /\ LoadBalancer_idle
  /\ WorkerTasks_new
  /\ TenantContext_none
  /\ SharedBlockWatcher_idle
  /\ OzMonitorServices_idle
  /\ OzMonitorServices_new({}, {})
  /\ LoadBalancer_new("ConsistentHashing")

NextNeeds ==
  \/ \E w \in LoadedWorkers : \E n \in Loads :
       update_worker_load([worker_id |-> w, tenant_count |-> n])
         /\ UNCHANGED << watcher_vars, oz_vars, pool_vars, cache_vars, config_vars, lock_vars, task_vars, context_vars, run_vars, match_vars >>
  \/ \E w \in LoadedWorkers : remove_worker(w) /\ UNCHANGED << watcher_vars, oz_vars, pool_vars, cache_vars, config_vars, lock_vars, task_vars, context_vars, run_vars, match_vars >>
  \/ rebalance /\ UNCHANGED << watcher_vars, oz_vars, pool_vars, cache_vars, config_vars, lock_vars, task_vars, context_vars, run_vars, match_vars >>
  \/ tick /\ UNCHANGED << watcher_vars, oz_vars, pool_vars, cache_vars, config_vars, lock_vars, task_vars, context_vars, run_vars, match_vars >>
  \/ call_needs_rebalancing /\ UNCHANGED << watcher_vars, oz_vars, pool_vars, cache_vars, config_vars, lock_vars, task_vars, context_vars, run_vars, match_vars >>

SpecNeeds == InitNeeds /\ [][NextNeeds]_vars

\* =============================================================== C21
\* The tenant counts of the registered workers.
tenant_counts == { worker_loads[k].tenant_count : k \in DOMAIN worker_loads }

\* (max - min) / average > rebalance_threshold over the registry, the
\* average being the sum of the counts over the number of workers.
Imbalanced ==
  LET max_tc == CHOOSE m \in tenant_counts : \A c \in tenant_counts : c <= m
      min_tc == CHOOSE m \in tenant_counts : \A c \in tenant_counts : m <= c
      total  == Sum([k \in DOMAIN worker_loads |-> worker_loads[k].tenant_count])
  IN  /\ total > 0
      /\ (max_tc - min_tc) * Len(worker_loads) * 100 > rebalance_threshold * total

\* C21: needs_rebalancing returns true exactly when min_rebalance_interval
\* has elapsed since last_rebalance, there are at least two workers and
\* their tenant counts are imbalanced beyond the threshold; it returns
\* false with fewer than two workers and when every count is 0.
C21_NeedsRebalancing ==
  [][returned'.op = "needs_rebalancing" /\ now' = now
     => /\ returned'.needed <=>
             /\ now - last_rebalance >= min_rebalance_interval
             /\ Len(worker_loads) >= 2
             /\ Imbalanced
        /\ Len(worker_loads) < 2 => ~ returned'.needed
        /\ tenant_counts \subseteq {0} => ~ returned'.needed]_vars

\* The call answers true for three workers of which one reports no
\* tenants.
C21_Witness ==
  /\ returned.op = "needs_rebalancing"
  /\ returned.needed
  /\ Len(worker_loads) = 3
  /\ 0 \in tenant_counts
  /\ now - last_rebalance >= min_rebalance_interval

\* =============================================================== C22
\* The step is a call of assign_tenant: of the other steps only tick
\* leaves that call in returned.
AssignsTenant == returned'.op = "assign_tenant" /\ now' = now

\* C22: with no worker registered, assign_tenant fails with the
\* no-workers error under every strategy and leaves the assignments, the
\* worker metrics and the affinity map as they were.
C22_NoWorkersAvailable ==
  [][AssignsTenant /\ worker_loads = << >>
     => /\ returned'.worker = NoWorkers
        /\ UNCHANGED << assignments, worker_loads, tenant_worker_map >>]_vars

\* An activity-based balancer without workers has refused a tenant of
\* high activity.
C22_Witness ==
  /\ strategy = "ActivityBased"
  /\ worker_loads = << >>
  /\ returned.op = "assign_tenant"
  /\ returned.worker = NoWorkers
  /\ returned.arg \in DOMAIN tenant_metrics
  /\ tenant_metrics[returned.arg] > HighActivity

\* =============================================================== C23
\* The step is a call of remove_worker, whose argument is returned'.arg.
RemovesWorker == returned'.op = "remove_worker" /\ now' = now

\* C23: remove_worker(w) returns exactly the tenants whose assignment
\* named w; afterwards w is not registered, no affinity entry and no
\* assignment names w, and the assignments to other workers are as before.
C23_RemoveWorkerOrphans ==
  [][RemovesWorker
     => /\ returned'.tenants =
             { t \in DOMAIN assignments : assignments[t].worker_id = returned'.arg }
        /\ returned'.arg \notin worker_ids(worker_loads')
        /\ \A k \in DOMAIN tenant_worker_map' : tenant_worker_map'[k] # returned'.arg
        /\ \A t \in DOMAIN assignments' : assignments'[t].worker_id # returned'.arg
        /\ \A t \in DOMAIN assignments :
             assignments[t].worker_id # returned'.arg =>
               t \in DOMAIN assignments' /\ assignments'[t] = assignments[t]
        /\ \A k \in DOMAIN worker_loads :
             worker_loads[k].worker_id # returned'.arg =>
               \E j \in DOMAIN worker_loads' : worker_loads'[j] = worker_loads[k]]_vars

\* A worker with one tenant was removed while the other tenant stays
\* with the other worker.
C23_Witness ==
  /\ returned.op = "remove_worker"
  /\ Cardinality(returned.tenants) = 1
  /\ Cardinality(DOMAIN assignments) = 1
  /\ Len(worker_loads) = 1
  /\ \A t \in DOMAIN assignments : assignments[t].worker_id # returned.arg

\* ===================================================== MonitorWorkerPool
\* One worker id; create_worker is modelled once per id.
PoolWorkerIds == {"w1"}

PoolTenantLists == {<< >>, <<"t1">>, <<"t1", "t2">>}

NoConsumer == [pc |-> "none", tenant_ids |-> << >>, remaining |-> 0, last |-> "none"]

\* MonitorWorker::new followed by assign_tenants, with the state of the
\* RwLock around the worker (locked: the write guard of the spawned start
\* task) and of the tasks that belong to it.  reloaded is the argument of
\* the last reload_configurations on the services of the worker: << >>
\* before the first call, << L >> after a call for the list L.
MonitorWorker_new(tenant_ids) ==
  [assigned_tenants |-> tenant_ids, status |-> "Starting", oz_services |-> FALSE,
   reloaded |-> << >>, locked |-> FALSE, start_pc |-> "spawned",
   reload_pc |-> "none", consumer |-> NoConsumer]

SetWorker(w, r) == monitor_worker' = [monitor_worker EXCEPT ![w] = r]

SetCall(c, r) == calls' = [calls EXCEPT ![c] = r]

\* create_worker(id, tenant_ids): under the write lock of the registry the
\* worker is inserted, then start is spawned.
create_worker(w, tenant_ids) ==
  /\ w \notin DOMAIN monitor_worker
  /\ workers_lock.writer = 0 /\ workers_lock.readers = {}
  /\ monitor_worker' = [x \in DOMAIN monitor_worker \cup {w} |->
                          IF x = w THEN MonitorWorker_new(tenant_ids) ELSE monitor_worker[x]]
  /\ workers' = workers \cup {w}
  /\ UNCHANGED << workers_lock, calls >>

\* The spawned task takes the write lock of the worker and runs start up
\* to the construction of the services: status Running, and a return when
\* no tenant is assigned, which ends the task and drops the guard.
start_running(w) ==
  /\ w \in DOMAIN monitor_worker
  /\ monitor_worker[w].start_pc = "spawned"
  /\ ~ monitor_worker[w].locked
  /\ SetWorker(w,
       IF monitor_worker[w].assigned_tenants = << >>
         THEN [monitor_worker[w] EXCEPT !.status = "Running", !.start_pc = "returned"]
         ELSE [monitor_worker[w] EXCEPT !.status = "Running", !.locked = TRUE,
                                        !.start_pc = "init"])
  /\ UNCHANGED << workers, workers_lock, calls >>

\* OzMonitorServices::new fails (status Error, start returns) or succeeds:
\* the services are stored, the receiver subscribed and the health, reload
\* and consumer tasks spawned; start then waits in select. None of the
\* three tasks ends (the channel cannot close while start holds the
\* watcher that owns the sender), so the guard is kept from then on.
start_services(w, ok) ==
  /\ w \in DOMAIN monitor_worker
  /\ monitor_worker[w].start_pc = "init"
  /\ SetWorker(w,
       IF ok
         THEN [monitor_worker[w] EXCEPT !.oz_services = TRUE, !.start_pc = "select",
                                        !.reload_pc = "tick",
                                        !.consumer = [NoConsumer EXCEPT !.pc = "recv"]]
         ELSE [monitor_worker[w] EXCEPT !.status = "Error", !.locked = FALSE,
                                        !.start_pc = "returned"])
  /\ UNCHANGED << workers, workers_lock, calls >>

\* The reload task: at every tick status Reloading, then status Running.
tenant_reload(w) ==
  /\ w \in DOMAIN monitor_worker
  /\ \/ /\ monitor_worker[w].reload_pc = "tick"
        /\ SetWorker(w, [monitor_worker[w] EXCEPT !.status = "Reloading",
                                                  !.reload_pc = "reloading"])
     \/ /\ monitor_worker[w].reload_pc = "reloading"
        /\ SetWorker(w, [monitor_worker[w] EXCEPT !.status = "Running",
                                                  !.reload_pc = "tick"])
  /\ UNCHANGED << workers, workers_lock, calls >>

\* The consumer at recv: a lag signal, or an event of n blocks for which
\* the tenant list is read once.
consumer_recv(w, lagged, n) ==
  /\ w \in DOMAIN monitor_worker
  /\ monitor_worker[w].consumer.pc = "recv"
  /\ SetWorker(w,
       IF lagged
         THEN [monitor_worker[w] EXCEPT !.consumer.last = "lagged"]
       ELSE IF monitor_worker[w].assigned_tenants = << >>
         THEN [monitor_worker[w] EXCEPT !.consumer.tenant_ids = << >>]
       ELSE [monitor_worker[w] EXCEPT
               !.consumer.pc = "process",
               !.consumer.tenant_ids = monitor_worker[w].assigned_tenants,
               !.consumer.remaining = n])
  /\ UNCHANGED << workers, workers_lock, calls >>

\* A consumer that ends at the first error of process_block.
consumer_process_until_error(w, ok) ==
  /\ w \in DOMAIN monitor_worker
  /\ monitor_worker[w].consumer.pc = "process"
  /\ SetWorker(w,
       [monitor_worker[w] EXCEPT
          !.status = IF ok THEN @ ELSE "Error",
          !.consumer.last = IF ok THEN "ok" ELSE "error",
          !.consumer.remaining = @ - 1,
          !.consumer.pc = IF ~ ok THEN "none"
                          ELSE IF monitor_worker[w].consumer.remaining = 1
                            THEN "recv" ELSE "process"])
  /\ UNCHANGED << workers, workers_lock, calls >>

\* process_block for the next block of the event: an error sets status
\* Error and the loop goes on.
consumer_process(w, ok) ==
  /\ w \in DOMAIN monitor_worker
  /\ monitor_worker[w].consumer.pc = "process"
  /\ SetWorker(w,
       [monitor_worker[w] EXCEPT
          !.status = IF ok THEN @ ELSE "Error",
          !.consumer.last = IF ok THEN "ok" ELSE "error",
          !.consumer.remaining = @ - 1,
          !.consumer.pc = IF monitor_worker[w].consumer.remaining = 1
                            THEN "recv" ELSE "process"])
  /\ UNCHANGED << workers, workers_lock, calls >>

PoolOps == {"get_worker_status", "list_workers", "reassign_tenants", "remove_worker"}

\* A caller invokes an operation of the pool.
invoke(c, op, w, tenant_ids) ==
  /\ calls[c].pc \in {"idle", "done"}
  /\ SetCall(c, [NoCall EXCEPT !.op = op, !.worker_id = w, !.pc = "workers",
                               !.tenant_ids = IF op = "reassign_tenants"
                                                THEN tenant_ids ELSE << >>])
  /\ UNCHANGED << workers, workers_lock, monitor_worker >>

Done(c, result, listed) ==
  [calls[c] EXCEPT !.pc = "done", !.result = result, !.listed = listed]

read_workers(c) ==
  /\ workers_lock.writer = 0
  /\ workers_lock' = [workers_lock EXCEPT !.readers = @ \cup {c}]

release_workers(c) ==
  workers_lock' = [writer |-> IF workers_lock.writer = c THEN 0 ELSE workers_lock.writer,
                   readers |-> workers_lock.readers \ {c}]

get_worker_status(c) ==
  /\ calls[c].op = "get_worker_status"
  /\ \/ /\ calls[c].pc = "workers"
        /\ workers_lock.writer = 0
        /\ IF calls[c].worker_id \in workers
             THEN /\ read_workers(c)
                  /\ SetCall(c, [calls[c] EXCEPT !.pc = "worker"])
             ELSE /\ SetCall(c, Done(c, "None", {}))
                  /\ UNCHANGED workers_lock
     \/ /\ calls[c].pc = "worker"
        /\ ~ monitor_worker[calls[c].worker_id].locked
        /\ SetCall(c, Done(c, monitor_worker[calls[c].worker_id].status, {}))
        /\ release_workers(c)
  /\ UNCHANGED << workers, monitor_worker >>

list_workers(c) ==
  /\ calls[c].op = "list_workers"
  /\ \/ /\ calls[c].pc = "workers"
        /\ workers_lock.writer = 0
        /\ IF workers # {}
             THEN /\ read_workers(c)
                  /\ SetCall(c, [calls[c] EXCEPT !.pc = "worker"])
             ELSE /\ SetCall(c, Done(c, "Ok", {}))
                  /\ UNCHANGED workers_lock
     \/ /\ calls[c].pc = "worker"
        /\ \A w \in workers : ~ monitor_worker[w].locked
        /\ SetCall(c, Done(c, "Ok", workers))
        /\ release_workers(c)
  /\ UNCHANGED << workers, monitor_worker >>

\* reload_configurations always returns Ok.
reassign_tenants(c) ==
  /\ calls[c].op = "reassign_tenants"
  /\ \/ /\ calls[c].pc = "workers"
        /\ workers_lock.writer = 0
        /\ IF calls[c].worker_id \in workers
             THEN /\ read_workers(c)
                  /\ SetCall(c, [calls[c] EXCEPT !.pc = "worker"])
             ELSE /\ SetCall(c, Done(c, "NotFound", {}))
                  /\ UNCHANGED workers_lock
        /\ UNCHANGED monitor_worker
     \/ /\ calls[c].pc = "worker"
        /\ ~ monitor_worker[calls[c].worker_id].locked
        /\ SetWorker(calls[c].worker_id,
             [monitor_worker[calls[c].worker_id] EXCEPT
                !.assigned_tenants = calls[c].tenant_ids,
                !.reloaded = IF monitor_worker[calls[c].worker_id].oz_services
                               THEN << calls[c].tenant_ids >> ELSE @])
        /\ SetCall(c, Done(c, "Ok", {}))
        /\ release_workers(c)
  /\ UNCHANGED workers

pool_remove_worker(c) ==
  /\ calls[c].op = "remove_worker"
  /\ \/ /\ calls[c].pc = "workers"
        /\ workers_lock.writer = 0 /\ workers_lock.readers = {}
        /\ IF calls[c].worker_id \in workers
             THEN /\ workers_lock' = [workers_lock EXCEPT !.writer = c]
                  /\ workers' = workers \ {calls[c].worker_id}
                  /\ SetCall(c, [calls[c] EXCEPT !.pc = "worker"])
             ELSE /\ SetCall(c, Done(c, "NotFound", {}))
                  /\ UNCHANGED << workers, workers_lock >>
        /\ UNCHANGED monitor_worker
     \/ /\ calls[c].pc = "worker"
        /\ ~ monitor_worker[calls[c].worker_id].locked
        /\ SetWorker(calls[c].worker_id,
             [monitor_worker[calls[c].worker_id] EXCEPT !.status = "Stopping"])
        /\ SetCall(c, Done(c, "Ok", {}))
        /\ release_workers(c)
        /\ UNCHANGED workers

InitPool ==
  /\ SharedBlockWatcher_new
  /\ OzMonitorServices_new({}, {})
  /\ LoadBalancer_new("ConsistentHashing")
  /\ MonitorWorkerPool_new
  /\ CachedBlockClient_new
  /\ OrchestratorConfig_new
  /\ LoadBalancer_idle
  /\ WorkerTasks_new
  /\ TenantContext_none
  /\ SharedBlockWatcher_idle
  /\ OzMonitorServices_idle

NextPool ==
  \/ \E w \in PoolWorkerIds : \E l \in PoolTenantLists : create_worker(w, l) /\ UNCHANGED << watcher_vars, oz_vars, lb_vars, cache_vars, config_vars, lock_vars, task_vars, context_vars, run_vars, match_vars >>
  \/ \E w \in PoolWorkerIds : start_running(w) /\ UNCHANGED << watcher_vars, oz_vars, lb_vars, cache_vars, config_vars, lock_vars, task_vars, context_vars, run_vars, match_vars >>
  \/ \E w \in PoolWorkerIds : \E ok \in BOOLEAN : start_services(w, ok) /\ UNCHANGED << watcher_vars, oz_vars, lb_vars, cache_vars, config_vars, lock_vars, task_vars, context_vars, run_vars, match_vars >>
  \/ \E w \in PoolWorkerIds : tenant_reload(w) /\ UNCHANGED << watcher_vars, oz_vars, lb_vars, cache_vars, config_vars, lock_vars, task_vars, context_vars, run_vars, match_vars >>
  \/ \E w \in PoolWorkerIds : \E lagged \in BOOLEAN : \E n \in 1 .. max_blocks_per_fetch : consumer_recv(w, lagged, n) /\ UNCHANGED << watcher_vars, oz_vars, lb_vars, cache_vars, config_vars, lock_vars, task_vars, context_vars, run_vars, match_vars >>
  \/ \E w \in PoolWorkerIds : \E ok \in BOOLEAN : consumer_process(w, ok) /\ UNCHANGED << watcher_vars, oz_vars, lb_vars, cache_vars, config_vars, lock_vars, task_vars, context_vars, run_vars, match_vars >>
  \/ \E c \in CallIds : \E op \in PoolOps : \E w \in PoolWorkerIds : \E l \in PoolTenantLists : invoke(c, op, w, l) /\ UNCHANGED << watcher_vars, oz_vars, lb_vars, cache_vars, config_vars, lock_vars, task_vars, context_vars, run_vars, match_vars >>
  \/ \E c \in CallIds : get_worker_status(c) /\ UNCHANGED << watcher_vars, oz_vars, lb_vars, cache_vars, config_vars, lock_vars, task_vars, context_vars, run_vars, match_vars >>
  \/ \E c \in CallIds : list_workers(c) /\ UNCHANGED << watcher_vars, oz_vars, lb_vars, cache_vars, config_vars, lock_vars, task_vars, context_vars, run_vars, match_vars >>
  \/ \E c \in CallIds : reassign_tenants(c) /\ UNCHANGED << watcher_vars, oz_vars, lb_vars, cache_vars, config_vars, lock_vars, task_vars, context_vars, run_vars, match_vars >>
  \/ \E c \in CallIds : pool_remove_worker(c) /\ UNCHANGED << watcher_vars, oz_vars, lb_vars, cache_vars, config_vars, lock_vars, task_vars, context_vars, run_vars, match_vars >>

SpecPool == InitPool /\ [][NextPool]_vars

\* The step of call c that takes a lock and goes on.
call_step(c) ==
  /\ \/ get_worker_status(c)
     \/ list_workers(c)
     \/ reassign_tenants(c)
     \/ pool_remove_worker(c)
  /\ UNCHANGED << watcher_vars, oz_vars, lb_vars, cache_vars, config_vars, lock_vars, task_vars, context_vars, run_vars, match_vars >>

\* The steps of the tasks of worker w that need no input.
task_step(w) ==
  /\ \/ start_running(w)
     \/ \E ok \in BOOLEAN : start_services(w, ok)
     \/ tenant_reload(w)
     \/ \E ok \in BOOLEAN : consumer_process(w, ok)
  /\ UNCHANGED << watcher_vars, oz_vars, lb_vars, cache_vars, config_vars, lock_vars, task_vars, context_vars, run_vars, match_vars >>

\* The runtime runs every task that can go on, and the locks are fair: a
\* call that can take its lock again and again takes it.
SpecPoolFair ==
  /\ SpecPool
  /\ \A c \in CallIds : SF_vars(call_step(c))
  /\ \A w \in PoolWorkerIds : WF_vars(task_step(w))

\* =============================================================== C24
AllowedTransitions ==
  { <<"Starting", "Running">>, <<"Running", "Reloading">>, <<"Reloading", "Running">>,
    <<"Running", "Stopping">>, <<"Reloading", "Stopping">>, <<"Stopping", "Stopped">> }

\* C24: a worker's status changes only from Starting to Running, between
\* Running and Reloading, from Running or Reloading to Stopping, from
\* Stopping to Stopped, or into Error.
C24_StatusTransitions ==
  [][\A w \in DOMAIN monitor_worker :
       monitor_worker'[w].status # monitor_worker[w].status =>
         \/ << monitor_worker[w].status, monitor_worker'[w].status >> \in AllowedTransitions
         \/ monitor_worker'[w].status = "Error"]_vars

RunningTasks(w) == w \in DOMAIN monitor_worker /\ monitor_worker[w].start_pc = "select"

\* C26: reassign_tenants(id, L) on a registered worker that runs its tasks
\* completes.
C26_ReassignCompletes ==
  \A c \in CallIds :
    (/\ calls[c].op = "reassign_tenants"
     /\ calls[c].pc = "workers"
     /\ calls[c].worker_id \in workers
     /\ RunningTasks(calls[c].worker_id)) ~> calls[c].pc = "done"

\* =============================================================== C27
\* C27: remove_worker(id) for a registered worker completes, also for a
\* worker that runs its tasks.
C27_RemoveCompletes ==
  \A c \in CallIds :
    (/\ calls[c].op = "remove_worker"
     /\ calls[c].pc = "worker") ~> calls[c].pc = "done"

\* ------------------------------------------------- CachedBlockClient

\* What the inner client may answer to get_blocks(start, end) and to
\* get_latest_block_number: no block or the block at start, any height,
\* or an error.
RpcBlocks(start) == { << >>, << start >> }

RpcBlockResults(start) == { OkBlocks(b) : b \in RpcBlocks(start) } \cup { ErrFrom("rpc") }

RpcLatestResults == { OkNumber(h) : h \in Heights } \cup { ErrFrom("rpc") }

\* get_cached_blocks(key): Err when the connection or the GET fails or the
\* bytes are not the JSON of a Vec<BlockType>, Ok(None) without the key.
get_cached_blocks(key, read_ok) ==
  IF ~read_ok THEN ErrFrom("cache")
  ELSE IF redis[key].kind = "absent" THEN [ErrFrom("") EXCEPT !.kind = "none"]
  ELSE IF redis[key].kind = "blocks" THEN OkBlocks(redis[key].blocks)
  ELSE ErrFrom("cache")

\* get_cached_latest_block(key): the same for a value read as u64.
get_cached_latest_block(key, read_ok) ==
  IF ~read_ok THEN ErrFrom("cache")
  ELSE IF redis[key].kind = "absent" THEN [ErrFrom("") EXCEPT !.kind = "none"]
  ELSE IF redis[key].kind = "number" THEN OkNumber(redis[key].number)
  ELSE ErrFrom("cache")

\* cache_blocks and cache_latest_block: set_ex, or an error that leaves
\* the key as it was.
set_ex(key, data, write_ok) ==
  IF write_ok THEN [redis EXCEPT ![key] = data] ELSE redis

\* The body shared by the two cached calls: a hit returns the cached
\* value; a miss and a failed read go to the inner client, whose error
\* returns at once and whose value is written to the cache, a failed
\* write being logged only.
cached_call_surfacing_read_error(op, key, cached, rpc, data, read_ok, write_ok) ==
  IF cached.kind = "ok" \/ cached.kind = "err"
  THEN /\ client_call' = [op |-> op, key |-> key, read_ok |-> read_ok,
                          write_ok |-> write_ok, rpc |-> rpc,
                          rpc_called |-> FALSE, result |-> cached]
       /\ UNCHANGED redis
  ELSE /\ client_call' = [op |-> op, key |-> key, read_ok |-> read_ok,
                          write_ok |-> write_ok, rpc |-> rpc,
                          rpc_called |-> TRUE, result |-> rpc]
       /\ redis' = IF rpc.kind = "ok" THEN set_ex(key, data, write_ok) ELSE redis

cached_call(op, key, cached, rpc, data, read_ok, write_ok) ==
  IF cached.kind = "ok"
  THEN /\ client_call' = [op |-> op, key |-> key, read_ok |-> read_ok,
                          write_ok |-> write_ok, rpc |-> rpc,
                          rpc_called |-> FALSE, result |-> cached]
       /\ UNCHANGED redis
  ELSE /\ client_call' = [op |-> op, key |-> key, read_ok |-> read_ok,
                          write_ok |-> write_ok, rpc |-> rpc,
                          rpc_called |-> TRUE, result |-> rpc]
       /\ redis' = IF rpc.kind = "ok" THEN set_ex(key, data, write_ok) ELSE redis

\* CachedBlockClient::get_blocks(start_block, end_block).
get_blocks(start, end, rpc, read_ok, write_ok) ==
  LET cache_key == block_cache_key(start, end)
  IN  cached_call("get_blocks", cache_key, get_cached_blocks(cache_key, read_ok),
                  rpc, to_vec(rpc.blocks), read_ok, write_ok)

\* CachedBlockClient::get_latest_block_number().
get_latest_block_number(rpc, read_ok, write_ok) ==
  LET cache_key == latest_block_cache_key
  IN  cached_call("get_latest_block_number", cache_key,
                  get_cached_latest_block(cache_key, read_ok),
                  rpc, to_redis(rpc.number), read_ok, write_ok)

\* The TTL of a key runs out.
expire(key) ==
  /\ redis[key].kind # "absent"
  /\ redis' = [redis EXCEPT ![key] = Absent]
  /\ UNCHANGED client_call

\* Another writer of the same Redis leaves bytes under the key that the
\* client cannot read back.
overwrite(key) ==
  /\ redis[key].kind # "garbage"
  /\ redis' = [redis EXCEPT ![key] = Garbage]
  /\ UNCHANGED client_call

InitCache ==
  /\ SharedBlockWatcher_new
  /\ OzMonitorServices_new({}, {})
  /\ LoadBalancer_new("ConsistentHashing")
  /\ MonitorWorkerPool_new
  /\ CachedBlockClient_new
  /\ OrchestratorConfig_new
  /\ LoadBalancer_idle
  /\ WorkerTasks_new
  /\ TenantContext_none
  /\ SharedBlockWatcher_idle
  /\ OzMonitorServices_idle

NextCache ==
  \/ \E start \in BlockStarts, end \in BlockEnds, read_ok \in BOOLEAN,
        write_ok \in BOOLEAN :
       \E rpc \in RpcBlockResults(start) :
         get_blocks(start, end, rpc, read_ok, write_ok)
           /\ UNCHANGED << watcher_vars, oz_vars, lb_vars, pool_vars, config_vars, lock_vars, task_vars, context_vars, run_vars, match_vars >>
  \/ \E rpc \in RpcLatestResults, read_ok \in BOOLEAN, write_ok \in BOOLEAN :
       get_latest_block_number(rpc, read_ok, write_ok)
         /\ UNCHANGED << watcher_vars, oz_vars, lb_vars, pool_vars, config_vars, lock_vars, task_vars, context_vars, run_vars, match_vars >>
  \/ \E key \in CacheKeys :
       expire(key) /\ UNCHANGED << watcher_vars, oz_vars, lb_vars, pool_vars, config_vars, lock_vars, task_vars, context_vars, run_vars, match_vars >>
  \/ \E key \in CacheKeys :
       overwrite(key) /\ UNCHANGED << watcher_vars, oz_vars, lb_vars, pool_vars, config_vars, lock_vars, task_vars, context_vars, run_vars, match_vars >>

SpecCache == InitCache /\ [][NextCache]_vars

\* C28: a call of the cached client returns the value Redis held under
\* its key without calling the inner client when the read succeeds and
\* finds one; in every other case (no key, a failed read, unreadable
\* bytes) it calls the inner client once and returns exactly that
\* result, value or error, whether or not the write to the cache fails.
C28_CacheNeverChangesResult ==
  [][client_call' # client_call =>
       LET c == client_call'
           held == redis[c.key]
           kind == IF c.op = "get_blocks" THEN "blocks" ELSE "number"
           hit == c.read_ok /\ held.kind = kind
       IN  IF hit
           THEN /\ ~c.rpc_called
                /\ c.result.kind = "ok"
                /\ c.result.blocks = held.blocks
                /\ c.result.number = held.number
           ELSE /\ c.rpc_called
                /\ c.result = c.rpc]_vars

\* A read of the cache failed, the inner client answered with blocks, the
\* write to the cache failed, and the call returned those blocks.
C28_Witness ==
  /\ client_call.op = "get_blocks"
  /\ ~client_call.read_ok
  /\ ~client_call.write_ok
  /\ client_call.rpc_called
  /\ client_call.result = client_call.rpc
  /\ client_call.result.kind = "ok"
  /\ client_call.result.blocks # << >>
  /\ redis[client_call.key].kind = "blocks"
  /\ redis[client_call.key].blocks # client_call.result.blocks

\* ------------------------------------------------- OrchestratorConfig

ValidOk == [kind |-> "ok", message |-> ""]

ValidErr(message) == [kind |-> "err", message |-> message]

\* WorkerConfig::validate.
WorkerConfig_validate(worker) ==
  IF worker.max_tenants_per_worker = 0
  THEN ValidErr("max_tenants_per_worker must be greater than 0")
  ELSE IF worker.health_check_interval < 5
  THEN ValidErr("health_check_interval must be at least 5 seconds")
  ELSE IF worker.tenant_reload_interval < 30
  THEN ValidErr("tenant_reload_interval must be at least 30 seconds")
  ELSE ValidOk

\* BlockCacheConfig::validate.
BlockCacheConfig_validate(block_cache) ==
  IF block_cache.block_ttl = 0
  THEN ValidErr("block_ttl must be greater than 0")
  ELSE IF block_cache.latest_block_ttl = 0
  THEN ValidErr("latest_block_ttl must be greater than 0")
  ELSE IF block_cache.key_prefix = ""
  THEN ValidErr("key_prefix cannot be empty")
  ELSE ValidOk

\* LoadBalancerConfig::validate.
LoadBalancerConfig_validate(load_balancer) ==
  IF load_balancer.max_tenants_per_worker = 0
  THEN ValidErr("max_tenants_per_worker must be greater than 0")
  ELSE IF load_balancer.rebalance_threshold < 0
            \/ load_balancer.rebalance_threshold > 100
  THEN ValidErr("rebalance_threshold must be between 0.0 and 1.0")
  ELSE IF load_balancer.min_rebalance_interval < 60
  THEN ValidErr("min_rebalance_interval must be at least 60 seconds")
  ELSE ValidOk

\* SharedBlockWatcherConfig::validate.
SharedBlockWatcherConfig_validate(block_watcher) ==
  IF block_watcher.channel_buffer_size = 0
  THEN ValidErr("channel_buffer_size must be greater than 0")
  ELSE IF block_watcher.max_blocks_per_fetch = 0
  THEN ValidErr("max_blocks_per_fetch must be greater than 0")
  ELSE IF block_watcher.retry_attempts = 0
  THEN ValidErr("retry_attempts must be greater than 0")
  ELSE IF block_watcher.retry_delay_ms = 0
  THEN ValidErr("retry_delay_ms must be greater than 0")
  ELSE ValidOk

\* ApiConfig::validate.
ApiConfig_validate(api) ==
  IF api.host = "" THEN ValidErr("host cannot be empty")
  ELSE IF api.port = 0 THEN ValidErr("port must be greater than 0")
  ELSE IF api.rate_limit = 0 THEN ValidErr("rate_limit must be greater than 0")
  ELSE ValidOk

\* OrchestratorConfig::validate: the two URLs, then the validate of the
\* worker, load_balancer and block_watcher sub-configs, in this order.
OrchestratorConfig_validate(c) ==
  IF c.database_url = "" THEN ValidErr("Database URL is required")
  ELSE IF c.redis_url = "" THEN ValidErr("Redis URL is required")
  ELSE IF WorkerConfig_validate(c.worker).kind = "err"
  THEN WorkerConfig_validate(c.worker)
  ELSE IF LoadBalancerConfig_validate(c.load_balancer).kind = "err"
  THEN LoadBalancerConfig_validate(c.load_balancer)
  ELSE IF SharedBlockWatcherConfig_validate(c.block_watcher).kind = "err"
  THEN SharedBlockWatcherConfig_validate(c.block_watcher)
  ELSE ValidOk

\* Values a file or the environment may give a field, next to its
\* default: around each limit the validators test.
FieldValues ==
  [database_url |-> {""}, redis_url |-> {""}]

SubFieldValues ==
  [worker |-> [max_tenants_per_worker |-> {0, 1}, health_check_interval |-> {4, 5},
               tenant_reload_interval |-> {29, 30}],
   block_cache |-> [block_ttl |-> {0, 1}, latest_block_ttl |-> {0, 1},
                    key_prefix |-> {""}],
   load_balancer |-> [max_tenants_per_worker |-> {0, 1},
                      rebalance_threshold |-> {0 - 1, 0, 100, 101},
                      min_rebalance_interval |-> {59, 60}],
   block_watcher |-> [channel_buffer_size |-> {0, 1}, max_blocks_per_fetch |-> {0, 1},
                      retry_attempts |-> {0, 1}, retry_delay_ms |-> {0, 1}],
   api |-> [host |-> {""}, port |-> {0, 1}, rate_limit |-> {0, 1}]]

\* Fields a loaded configuration sets away from the default.
MaxOverrides == 2

\* load(): the deserialized configuration, with one more field set.
load_field(field, value) ==
  /\ config' = [config EXCEPT ![field] = value]
  /\ validation' = NotValidated

load_sub_field(sub, field, value) ==
  /\ config' = [config EXCEPT ![sub][field] = value]
  /\ validation' = NotValidated

\* Number of fields of c that are not at their default.
overrides(c) ==
  Cardinality({ f \in DOMAIN FieldValues : c[f] # DefaultConfig[f] })
    + Cardinality({ p \in UNION { { << sub, f >> : f \in DOMAIN SubFieldValues[sub] } :
                                    sub \in DOMAIN SubFieldValues } :
                      c[p[1]][p[2]] # DefaultConfig[p[1]][p[2]] })

\* main: config.validate().
validate ==
  /\ validation' = OrchestratorConfig_validate(config)
  /\ UNCHANGED config

InitConfig ==
  /\ SharedBlockWatcher_new
  /\ OzMonitorServices_new({}, {})
  /\ LoadBalancer_new("ConsistentHashing")
  /\ MonitorWorkerPool_new
  /\ CachedBlockClient_new
  /\ OrchestratorConfig_new
  /\ LoadBalancer_idle
  /\ WorkerTasks_new
  /\ TenantContext_none
  /\ SharedBlockWatcher_idle
  /\ OzMonitorServices_idle

NextConfig ==
  \/ \E field \in DOMAIN FieldValues :
       \E value \in FieldValues[field] :
         /\ config[field] = DefaultConfig[field]
         /\ overrides(config) < MaxOverrides
         /\ load_field(field, value)
         /\ UNCHANGED << watcher_vars, oz_vars, lb_vars, pool_vars, cache_vars, lock_vars, task_vars, context_vars, run_vars, match_vars >>
  \/ \E sub \in DOMAIN SubFieldValues :
       \E field \in DOMAIN SubFieldValues[sub] :
         \E value \in SubFieldValues[sub][field] :
           /\ config[sub][field] = DefaultConfig[sub][field]
           /\ overrides(config) < MaxOverrides
           /\ load_sub_field(sub, field, value)
           /\ UNCHANGED << watcher_vars, oz_vars, lb_vars, pool_vars, cache_vars, lock_vars, task_vars, context_vars, run_vars, match_vars >>
  \/ validate /\ UNCHANGED << watcher_vars, oz_vars, lb_vars, pool_vars, cache_vars, lock_vars, task_vars, context_vars, run_vars, match_vars >>

SpecConfig == InitConfig /\ [][NextConfig]_vars

\* The constraints of the five sub-config validators and of the two URLs.
SatisfiesSchema(c) ==
  /\ c.database_url # ""
  /\ c.redis_url # ""
  /\ WorkerConfig_validate(c.worker).kind = "ok"
  /\ BlockCacheConfig_validate(c.block_cache).kind = "ok"
  /\ LoadBalancerConfig_validate(c.load_balancer).kind = "ok"
  /\ SharedBlockWatcherConfig_validate(c.block_watcher).kind = "ok"
  /\ ApiConfig_validate(c.api).kind = "ok"

\* C29: validate accepts the default configuration with the two URLs set
\* and rejects every configuration in which a field of a sub-config or a
\* URL violates its constraint.
C29_ValidateRejectsSchemaViolations ==
  /\ validation.kind # "none" /\ config = DefaultConfig => validation.kind = "ok"
  /\ validation.kind # "none" /\ ~SatisfiesSchema(config) => validation.kind = "err"

\* ------------------------------------------- the locks of LoadBalancer

BalancerWorkers == {"w1"}

BalancerTenants == {"t1"}

\* tenant_count of the metrics a worker reports.
ReportedCounts == {0, 1}

\* What a call still has to do: await a lock, drop guards at the end of a
\* helper or of a statement, run the code between two awaits, return.
Lock(l, mode) == [kind |-> "lock", locks |-> {l}, mode |-> mode, label |-> ""]

Unlock(ls, mode) == [kind |-> "unlock", locks |-> ls, mode |-> mode, label |-> ""]

Do(label) == [kind |-> "do", locks |-> {}, mode |-> "", label |-> label]

ReturnOk == [kind |-> "return", locks |-> {}, mode |-> "", label |-> ""]

\* assign_tenant after the strategy chose a worker: lines 157 to 176.
record_assignment ==
  << Lock("assignments", "write"), Do("insert"),
     Lock("worker_loads", "write"), Do("count"), ReturnOk >>

round_robin_steps ==
  << Lock("worker_loads", "read"), Do("round_robin"),
     Unlock({"worker_loads"}, "read") >>

least_loaded_steps ==
  << Lock("worker_loads", "read"), Do("least_loaded"),
     Unlock({"worker_loads"}, "read") >>

consistent_hash_steps ==
  << Lock("tenant_worker_map", "read"), Lock("worker_loads", "read"),
     Do("consistent_hash"),
     Unlock({"tenant_worker_map", "worker_loads"}, "read") >>

\* activity_based_assignment keeps its two read guards over the helper it
\* calls.
activity_based_steps ==
  << Lock("tenant_metrics", "read"), Lock("worker_loads", "read"),
     Do("activity_based") >>

activity_based_rest(helper) ==
  helper \o << Unlock({"tenant_metrics", "worker_loads"}, "read") >>
    \o record_assignment

steps(op) ==
  CASE op = "add_worker" ->
         << Lock("worker_loads", "write"), Do("add_worker"), ReturnOk >>
    [] op = "remove_worker" ->
         << Lock("worker_loads", "write"), Lock("tenant_worker_map", "write"),
            Lock("assignments", "write"), Do("remove_worker"), ReturnOk >>
    [] op = "update_worker_load" ->
         << Lock("worker_loads", "write"), Do("update_worker_load"), ReturnOk >>
    [] op = "update_tenant_metrics" ->
         << Lock("tenant_metrics", "write"), Do("update_tenant_metrics"), ReturnOk >>
    [] op = "rebalance" ->
         << Lock("tenant_metrics", "read"), Lock("worker_loads", "read"),
            Do("rebalance_workers"), Lock("assignments", "write"),
            Do("rebalance_assignments"), Lock("last_rebalance", "write"),
            Do("rebalance_time"), Unlock({"last_rebalance"}, "write"), ReturnOk >>
    [] op = "assign_tenant" /\ strategy = "RoundRobin" ->
         round_robin_steps \o record_assignment
    [] op = "assign_tenant" /\ strategy = "LeastLoaded" ->
         least_loaded_steps \o record_assignment
    [] op = "assign_tenant" /\ strategy = "ConsistentHashing" ->
         consistent_hash_steps \o record_assignment
    [] OTHER -> activity_based_steps

BalancerOps ==
  {"add_worker", "remove_worker", "update_worker_load", "update_tenant_metrics",
   "rebalance", "assign_tenant"}

InFlight(c) == lb_calls[c].rest # << >>

SetBalancerCall(c, call) == lb_calls' = [lb_calls EXCEPT ![c] = call]

\* A task calls op on the balancer.
balancer_invoke(c, op, tenant_id, worker_id, load) ==
  /\ ~InFlight(c)
  /\ \A k \in DOMAIN worker_loads : worker_loads[k].tenant_count < MaxCount
  /\ SetBalancerCall(c, [op |-> op, tenant_id |-> tenant_id, worker_id |-> worker_id,
                         load |-> load, rest |-> steps(op), waiting |-> FALSE,
                         result |-> ""])
  /\ UNCHANGED << rwlocks, lb_vars >>

\* RwLock::read and RwLock::write, first poll: the acquisition joins the
\* queue of the lock.
acquire(c) ==
  /\ InFlight(c)
  /\ Head(lb_calls[c].rest).kind = "lock"
  /\ ~lb_calls[c].waiting
  /\ LET l == CHOOSE n \in LockNames : n \in Head(lb_calls[c].rest).locks
     IN  rwlocks' = [rwlocks EXCEPT ![l].queue =
                       Append(@, [task |-> c, mode |-> Head(lb_calls[c].rest).mode])]
  /\ SetBalancerCall(c, [lb_calls[c] EXCEPT !.waiting = TRUE])
  /\ UNCHANGED lb_vars

\* The acquisition at the head of the queue gets its guard: a read guard
\* while no write guard is out, a write guard while no guard is out.
available(lock, mode) ==
  /\ lock.writer = 0
  /\ mode = "write" => \A c \in BalancerCallIds : lock.readers[c] = 0

granted(c) ==
  /\ InFlight(c)
  /\ lb_calls[c].waiting
  /\ LET l == CHOOSE n \in LockNames : n \in Head(lb_calls[c].rest).locks
         mode == Head(lb_calls[c].rest).mode
     IN  /\ Head(rwlocks[l].queue).task = c
         /\ available(rwlocks[l], mode)
         /\ rwlocks' =
              [rwlocks EXCEPT ![l] =
                 [writer |-> IF mode = "write" THEN c ELSE 0,
                  readers |-> IF mode = "read"
                                THEN [rwlocks[l].readers EXCEPT ![c] = @ + 1]
                                ELSE rwlocks[l].readers,
                  queue |-> Tail(rwlocks[l].queue)]]
  /\ SetBalancerCall(c, [lb_calls[c] EXCEPT !.waiting = FALSE, !.rest = Tail(@)])
  /\ UNCHANGED lb_vars

\* Guards dropped: one guard of the task on each of the locks ls.
dropped(locks, c, ls, mode) ==
  [l \in LockNames |->
     IF l \notin ls THEN locks[l]
     ELSE IF mode = "write" THEN [locks[l] EXCEPT !.writer = 0]
     ELSE [locks[l] EXCEPT !.readers[c] = @ - 1]]

\* Every guard of the task dropped, at the end of the call.
dropped_all(locks, c) ==
  [l \in LockNames |->
     [locks[l] EXCEPT !.writer = IF @ = c THEN 0 ELSE @, !.readers[c] = 0]]

drop_guards(c) ==
  /\ InFlight(c)
  /\ Head(lb_calls[c].rest).kind = "unlock"
  /\ rwlocks' = dropped(rwlocks, c, Head(lb_calls[c].rest).locks,
                        Head(lb_calls[c].rest).mode)
  /\ SetBalancerCall(c, [lb_calls[c] EXCEPT !.rest = Tail(@)])
  /\ UNCHANGED lb_vars

\* The call returns value with every guard it holds dropped.
return_from(c, value) ==
  /\ rwlocks' = dropped_all(rwlocks, c)
  /\ SetBalancerCall(c, [lb_calls[c] EXCEPT !.rest = << >>, !.result = value])

call_return(c) ==
  /\ InFlight(c)
  /\ Head(lb_calls[c].rest).kind = "return"
  /\ return_from(c, "Ok")
  /\ UNCHANGED lb_vars

\* The call goes on with the steps after the current one.
go_on(c, worker_id) ==
  /\ SetBalancerCall(c, [lb_calls[c] EXCEPT !.rest = Tail(@), !.worker_id = worker_id])
  /\ UNCHANGED rwlocks

\* A strategy helper chose worker_id, or found no worker: the ? of
\* assign_tenant returns the error.
chosen(c, worker_id) ==
  /\ IF worker_id = NoWorkers THEN return_from(c, NoWorkers) ELSE go_on(c, worker_id)
  /\ UNCHANGED lb_vars

\* The code between two awaits of a call.
body(c) ==
  /\ InFlight(c)
  /\ Head(lb_calls[c].rest).kind = "do"
  /\ LET call == lb_calls[c]
         label == Head(call.rest).label
     IN  CASE label = "add_worker" ->
                /\ \E pos \in 1 .. Len(worker_loads) + 1 :
                     worker_loads' = insert_worker(worker_loads, call.worker_id, pos)
                /\ go_on(c, call.worker_id)
                /\ UNCHANGED << assignments, tenant_metrics, tenant_worker_map,
                                last_rebalance, now, returned, strategy >>
           [] label = "remove_worker" ->
                /\ worker_loads' =
                     SelectSeq(worker_loads, LAMBDA m : m.worker_id # call.worker_id)
                /\ tenant_worker_map' = retain_entries(tenant_worker_map,
                     { k \in DOMAIN tenant_worker_map :
                         tenant_worker_map[k] # call.worker_id })
                /\ assignments' = retain_entries(assignments,
                     { t \in DOMAIN assignments :
                         assignments[t].worker_id # call.worker_id })
                /\ go_on(c, call.worker_id)
                /\ UNCHANGED << tenant_metrics, last_rebalance, now, returned, strategy >>
           [] label = "update_worker_load" ->
                /\ \E pos \in 1 .. Len(worker_loads) + 1 :
                     worker_loads' =
                       insert_metrics(worker_loads,
                                      [worker_id |-> call.worker_id,
                                       tenant_count |-> call.load], pos)
                /\ go_on(c, call.worker_id)
                /\ UNCHANGED << assignments, tenant_metrics, tenant_worker_map,
                                last_rebalance, now, returned, strategy >>
           [] label = "update_tenant_metrics" ->
                /\ tenant_metrics' =
                     [t \in DOMAIN tenant_metrics \cup {call.tenant_id} |->
                        IF t = call.tenant_id THEN call.load ELSE tenant_metrics[t]]
                /\ go_on(c, call.worker_id)
                /\ UNCHANGED << assignments, worker_loads, tenant_worker_map,
                                last_rebalance, now, returned, strategy >>
           [] label = "round_robin" ->
                chosen(c, round_robin_assignment(worker_loads))
           [] label = "least_loaded" ->
                chosen(c, least_loaded_assignment(worker_loads))
           [] label = "consistent_hash" ->
                chosen(c, consistent_hash_assignment(tenant_worker_map, worker_loads,
                                                     call.tenant_id))
           [] label = "activity_based" ->
                /\ SetBalancerCall(c, [call EXCEPT !.rest =
                     activity_based_rest(
                       IF /\ call.tenant_id \in DOMAIN tenant_metrics
                          /\ tenant_metrics[call.tenant_id] > HighActivity
                         THEN least_loaded_steps
                         ELSE consistent_hash_steps)])
                /\ UNCHANGED << rwlocks, lb_vars >>
           [] label = "insert" ->
                /\ assignments' =
                     [t \in DOMAIN assignments \cup {call.tenant_id} |->
                        IF t = call.tenant_id
                          THEN TenantAssignment_new(call.tenant_id, call.worker_id,
                                                    assignment_reason)
                          ELSE assignments[t]]
                /\ go_on(c, call.worker_id)
                /\ UNCHANGED << worker_loads, tenant_metrics, tenant_worker_map,
                                last_rebalance, now, returned, strategy >>
           [] label = "count" ->
                /\ worker_loads' = count_tenant(worker_loads, call.worker_id)
                /\ go_on(c, call.worker_id)
                /\ UNCHANGED << assignments, tenant_metrics, tenant_worker_map,
                                last_rebalance, now, returned, strategy >>
           [] label = "rebalance_workers" ->
                /\ IF worker_loads = << >>
                     THEN return_from(c, "Ok")
                     ELSE go_on(c, call.worker_id)
                /\ UNCHANGED lb_vars
           [] label = "rebalance_assignments" ->
                /\ \E high \in sorted_bucket(tenant_metrics, high_activity(tenant_metrics)) :
                   \E medium \in sorted_bucket(tenant_metrics,
                                               medium_activity(tenant_metrics)) :
                   \E low \in sorted_bucket(tenant_metrics, low_activity(tenant_metrics)) :
                   \E ids \in Orders(worker_ids(worker_loads)) :
                     assignments' =
                       from_distribution(
                         place(high \o medium \o low, tenant_metrics, ids,
                               [w \in worker_ids(worker_loads) |-> 0],
                               [w \in worker_ids(worker_loads) |-> << >>]))
                /\ go_on(c, call.worker_id)
                /\ UNCHANGED << worker_loads, tenant_metrics, tenant_worker_map,
                                last_rebalance, now, returned, strategy >>
           [] OTHER ->
                /\ last_rebalance' = now
                /\ go_on(c, call.worker_id)
                /\ UNCHANGED << assignments, worker_loads, tenant_metrics,
                                tenant_worker_map, now, returned, strategy >>

InitLocks ==
  /\ SharedBlockWatcher_new
  /\ OzMonitorServices_new({}, {})
  /\ \E st \in Strategies : LoadBalancer_new(st)
  /\ MonitorWorkerPool_new
  /\ CachedBlockClient_new
  /\ OrchestratorConfig_new
  /\ LoadBalancer_idle
  /\ WorkerTasks_new
  /\ TenantContext_none
  /\ SharedBlockWatcher_idle
  /\ OzMonitorServices_idle

NextLocks ==
  \/ \E c \in BalancerCallIds, op \in BalancerOps, t \in BalancerTenants,
        w \in BalancerWorkers :
       \E load \in IF op = "update_tenant_metrics" THEN Scores
                   ELSE IF op = "update_worker_load" THEN ReportedCounts ELSE {0} :
         balancer_invoke(c, op, t, w, load)
           /\ UNCHANGED << watcher_vars, oz_vars, pool_vars, cache_vars, config_vars, task_vars, context_vars, run_vars, match_vars >>
  \/ \E c \in BalancerCallIds :
       acquire(c) /\ UNCHANGED << watcher_vars, oz_vars, pool_vars, cache_vars, config_vars, task_vars, context_vars, run_vars, match_vars >>
  \/ \E c \in BalancerCallIds :
       granted(c) /\ UNCHANGED << watcher_vars, oz_vars, pool_vars, cache_vars, config_vars, task_vars, context_vars, run_vars, match_vars >>
  \/ \E c \in BalancerCallIds :
       drop_guards(c) /\ UNCHANGED << watcher_vars, oz_vars, pool_vars, cache_vars, config_vars, task_vars, context_vars, run_vars, match_vars >>
  \/ \E c \in BalancerCallIds :
       body(c) /\ UNCHANGED << watcher_vars, oz_vars, pool_vars, cache_vars, config_vars, task_vars, context_vars, run_vars, match_vars >>
  \/ \E c \in BalancerCallIds :
       call_return(c) /\ UNCHANGED << watcher_vars, oz_vars, pool_vars, cache_vars, config_vars, task_vars, context_vars, run_vars, match_vars >>

SpecLocks == InitLocks /\ [][NextLocks]_vars

\* A task that is polled goes on: each step of a call is taken once it
\* can be.
balancer_step(c) ==
  (acquire(c) \/ granted(c) \/ drop_guards(c) \/ body(c) \/ call_return(c))
    /\ UNCHANGED << watcher_vars, oz_vars, pool_vars, cache_vars, config_vars, task_vars, context_vars, run_vars, match_vars >>

SpecLocksFair == SpecLocks /\ \A c \in BalancerCallIds : WF_vars(balancer_step(c))

\* C30: every call of assign_tenant, remove_worker, rebalance, add_worker
\* and update_worker_load on one balancer completes, whatever calls run
\* beside it: none waits forever for a lock.
C30_CallsComplete ==
  \A c \in BalancerCallIds : InFlight(c) ~> ~InFlight(c)

\* =============================================================== C31
\* C31: the tenant_count of every registered worker is the number of
\* tenants whose assignment names that worker, after any calls of
\* add_worker, assign_tenant, remove_worker and rebalance and no other
\* call.
C31_TenantCountMatchesAssignments ==
  tenant_metrics = << >> =>
    \A k \in DOMAIN worker_loads :
      worker_loads[k].tenant_count
        = Cardinality(get_worker_assignments(worker_loads[k].worker_id))

\* =============================================================== C32
\* C32: every tenant that has an assignment before a call of rebalance
\* has one after it.
C32_RebalanceKeepsTenantsAssigned ==
  [][returned'.op = "rebalance" /\ now' = now
       => DOMAIN assignments \subseteq DOMAIN assignments']_vars

\* =============================================================== C33
\* C33: every assignment names a registered worker, whatever calls of
\* assign_tenant, remove_worker and rebalance run beside each other.
C33_AssignedWorkerRegistered ==
  \A t \in DOMAIN assignments : assignments[t].worker_id \in worker_ids(worker_loads)

\* =============================================================== C35
\* C35: every tick of the reload task reloads the configurations of the
\* tenants of the worker between Reloading and Running.
C35_ReloadTickReloads ==
  [][\A w \in DOMAIN monitor_worker :
       /\ monitor_worker[w].reload_pc = "reloading"
       /\ monitor_worker'[w].reload_pc = "tick"
       => monitor_worker'[w].reloaded = << monitor_worker[w].assigned_tenants >>]_vars

\* =============================================================== C38
\* C38: a registered worker whose start returned with status Running and
\* that has tenants assigned consumes the events of the channel.
C38_ReassignedIdleWorkerConsumes ==
  \A w \in workers :
    /\ monitor_worker[w].start_pc = "returned"
    /\ monitor_worker[w].status = "Running"
    /\ monitor_worker[w].assigned_tenants # << >>
    => monitor_worker[w].consumer.pc \in {"recv", "process"}

\* ============================================ the tasks of a worker
\* Values of WorkerConfig.health_check_interval, a public field that
\* MonitorWorkerPool::new takes as it is (worker_pool.rs 29-36, 261).
HealthCheckIntervals == {0, 30}

\* The health task (worker_pool.rs 150-163).  tokio::time::interval panics
\* for a period of zero, which ends the task; with another period the task
\* loops for ever and only reads the status.
start_health_check(w) ==
  /\ w \in DOMAIN monitor_worker
  /\ monitor_worker[w].start_pc = "select"
  /\ w \notin health_finished
  /\ health_check_interval = 0
  /\ health_finished' = health_finished \cup {w}
  /\ UNCHANGED << health_check_interval, total_matches, triggers_executed >>

\* select in start (worker_pool.rs 139-146): the handle of a task that has
\* ended completes and the two other handles are dropped, which leaves
\* their tasks running; status Stopped, start returns and the task that
\* ran it drops the guard of the worker.
start_select(w) ==
  /\ w \in DOMAIN monitor_worker
  /\ monitor_worker[w].start_pc = "select"
  /\ w \in health_finished
  /\ SetWorker(w, [monitor_worker[w] EXCEPT !.status = "Stopped", !.locked = FALSE,
                                            !.start_pc = "returned"])
  /\ UNCHANGED << workers, workers_lock, calls >>

\* The body of the consumer for one block (worker_pool.rs 211-235):
\* process_block returns n matches, which are counted and logged, or an
\* error.  Nothing in the body, and nothing else in the program, calls
\* execute_triggers (oz_monitor_integration.rs 445-482).
consumer_block(w, ok, n) ==
  /\ consumer_process(w, ok)
  /\ total_matches' = total_matches + (IF ok THEN n ELSE 0)
  /\ UNCHANGED << health_check_interval, health_finished, triggers_executed >>

WorkerOps == {"reassign_tenants", "remove_worker"}

InitWorker ==
  /\ SharedBlockWatcher_new
  /\ OzMonitorServices_new({}, {})
  /\ LoadBalancer_new("ConsistentHashing")
  /\ MonitorWorkerPool_new
  /\ CachedBlockClient_new
  /\ OrchestratorConfig_new
  /\ LoadBalancer_idle
  /\ health_check_interval \in HealthCheckIntervals
  /\ health_finished = {}
  /\ total_matches = 0
  /\ triggers_executed = 0
  /\ TenantContext_none
  /\ SharedBlockWatcher_idle
  /\ OzMonitorServices_idle

NextWorker ==
  \/ \E w \in PoolWorkerIds : \E l \in PoolTenantLists : create_worker(w, l) /\ UNCHANGED << watcher_vars, oz_vars, lb_vars, cache_vars, config_vars, lock_vars, task_vars, context_vars, run_vars, match_vars >>
  \/ \E w \in PoolWorkerIds : start_running(w) /\ UNCHANGED << watcher_vars, oz_vars, lb_vars, cache_vars, config_vars, lock_vars, task_vars, context_vars, run_vars, match_vars >>
  \/ \E w \in PoolWorkerIds : \E ok \in BOOLEAN : start_services(w, ok) /\ UNCHANGED << watcher_vars, oz_vars, lb_vars, cache_vars, config_vars, lock_vars, task_vars, context_vars, run_vars, match_vars >>
  \/ \E w \in PoolWorkerIds : start_health_check(w) /\ UNCHANGED << watcher_vars, oz_vars, lb_vars, pool_vars, cache_vars, config_vars, lock_vars, context_vars, run_vars, match_vars >>
  \/ \E w \in PoolWorkerIds : start_select(w) /\ UNCHANGED << watcher_vars, oz_vars, lb_vars, cache_vars, config_vars, lock_vars, task_vars, context_vars, run_vars, match_vars >>
  \/ \E w \in PoolWorkerIds : tenant_reload(w) /\ UNCHANGED << watcher_vars, oz_vars, lb_vars, cache_vars, config_vars, lock_vars, task_vars, context_vars, run_vars, match_vars >>
  \/ \E w \in PoolWorkerIds : \E lagged \in BOOLEAN : \E n \in 1 .. max_blocks_per_fetch : consumer_recv(w, lagged, n) /\ UNCHANGED << watcher_vars, oz_vars, lb_vars, cache_vars, config_vars, lock_vars, task_vars, context_vars, run_vars, match_vars >>
  \/ \E w \in PoolWorkerIds : \E ok \in BOOLEAN : \E n \in 0 .. (MaxMatches - total_matches) : consumer_block(w, ok, n) /\ UNCHANGED << watcher_vars, oz_vars, lb_vars, cache_vars, config_vars, lock_vars, context_vars, run_vars, match_vars >>
  \/ \E c \in CallIds : \E op \in WorkerOps : \E w \in PoolWorkerIds : \E l \in PoolTenantLists : invoke(c, op, w, l) /\ UNCHANGED << watcher_vars, oz_vars, lb_vars, cache_vars, config_vars, lock_vars, task_vars, context_vars, run_vars, match_vars >>
  \/ \E c \in CallIds : reassign_tenants(c) /\ UNCHANGED << watcher_vars, oz_vars, lb_vars, cache_vars, config_vars, lock_vars, task_vars, context_vars, run_vars, match_vars >>
  \/ \E c \in CallIds : pool_remove_worker(c) /\ UNCHANGED << watcher_vars, oz_vars, lb_vars, cache_vars, config_vars, lock_vars, task_vars, context_vars, run_vars, match_vars >>

SpecWorker == InitWorker /\ [][NextWorker]_vars

\* =============================================================== C34
\* C34: the triggers of the matched monitor are executed once for every
\* match the consumer of a worker gets from process_block.
C34_MatchesDispatched ==
  [][triggers_executed' - triggers_executed = total_matches' - total_matches]_vars

\* =============================================================== C37
\* C37: no task sets the status of a worker to Reloading, Running or Error
\* once the status is Stopped.
C37_StoppedIsFinal ==
  [][\A w \in DOMAIN monitor_worker :
       monitor_worker[w].status = "Stopped"
         => monitor_worker'[w].status \notin {"Reloading", "Running", "Error"}]_vars

\* ====================================== the context of a tenant (C36)
\* The rows the network and trigger tables can hold.
NetworkRows == { [tenant_id |-> "t1", slug |-> "net_a"] }
TriggerRows == { [tenant_id |-> "t1", name |-> "tr1"] }

\* The monitor rows the repository of this specification can hold.
ContextRows ==
  { Monitor("t1", "m1", {"0xa"}, {"net_a"}),
    Monitor("t2", "m2", {"0xa"}, {"net_a"}) }

\* load_tenant_networks and load_tenant_triggers (oz_monitor_integration.rs
\* 524-538): the rows of the table for the tenants of the filter, which
\* update_tenant_filter leaves as it is.
load_tenant_networks(db, filter, tenant_id) ==
  { r \in db : r.tenant_id \in update_tenant_filter(filter, {tenant_id}) }

load_tenant_triggers(db, filter, tenant_id) ==
  { r \in db : r.tenant_id \in update_tenant_filter(filter, {tenant_id}) }

\* Somebody else changes the rows of the three tables.
repository_change(monitors, nets, triggers) ==
  /\ << monitors, nets, triggers >> # << db_monitors, db_networks, db_triggers >>
  /\ db_monitors' = monitors
  /\ db_networks' = nets
  /\ db_triggers' = triggers
  /\ context' = Context("repository_change", {}, {}, {})
  /\ UNCHANGED << tenant_filter, monitor_cache, processing, all_matches, last_eval >>

\* One round of the loop of process_block with the whole context that
\* get_tenant_context builds for the tenant (485-510): the monitors as in
\* process_tenant, the networks and triggers from their tables.
process_tenant_context(conditions) ==
  /\ process_tenant(conditions)
  /\ LET tenant_id == Head(processing.tenant_ids)
     IN  context' = Context("get_tenant_context", {tenant_id},
                            load_tenant_networks(db_networks, tenant_filter, tenant_id),
                            load_tenant_triggers(db_triggers, tenant_filter, tenant_id))
  /\ UNCHANGED << db_networks, db_triggers >>

reload_context(tenant_ids) ==
  /\ reload_configurations(tenant_ids)
  /\ context' = Context("reload_configurations", tenant_ids, {}, {})
  /\ UNCHANGED << db_networks, db_triggers >>

InitContext ==
  /\ SharedBlockWatcher_new
  /\ MonitorWorkerPool_new
  /\ CachedBlockClient_new
  /\ OrchestratorConfig_new
  /\ LoadBalancer_idle
  /\ WorkerTasks_new
  /\ LoadBalancer_new("ConsistentHashing")
  /\ \E ids \in SUBSET Tenants \ {{}} : OzMonitorServices_new({}, ids)
  /\ TenantContext_none
  /\ SharedBlockWatcher_idle
  /\ OzMonitorServices_idle

NextContext ==
  \/ \E m \in SUBSET ContextRows : \E n \in SUBSET NetworkRows : \E t \in SUBSET TriggerRows : repository_change(m, n, t) /\ UNCHANGED << watcher_vars, lb_vars, pool_vars, cache_vars, config_vars, lock_vars, task_vars, run_vars, match_vars >>
  \/ \E ts \in TenantLists : process_block("net_a", "0xa", ts) /\ UNCHANGED context_vars /\ UNCHANGED << watcher_vars, lb_vars, pool_vars, cache_vars, config_vars, lock_vars, task_vars, run_vars, match_vars >>
  \/ process_tenant_context(<< >>) /\ UNCHANGED << watcher_vars, lb_vars, pool_vars, cache_vars, config_vars, lock_vars, task_vars, run_vars, match_vars >>
  \/ process_block_return /\ UNCHANGED context_vars /\ UNCHANGED << watcher_vars, lb_vars, pool_vars, cache_vars, config_vars, lock_vars, task_vars, run_vars, match_vars >>
  \/ process_block_error /\ UNCHANGED context_vars /\ UNCHANGED << watcher_vars, lb_vars, pool_vars, cache_vars, config_vars, lock_vars, task_vars, run_vars, match_vars >>
  \/ \E ts \in SUBSET Tenants \ {{}} : reload_context(ts) /\ UNCHANGED << watcher_vars, lb_vars, pool_vars, cache_vars, config_vars, lock_vars, task_vars, run_vars, match_vars >>

SpecContext == InitContext /\ [][NextContext]_vars

Waiting(lock) == { lock.queue[k] : k \in DOMAIN lock.queue }

\* run is called (shared_block_watcher.rs 178-182) and sleeps 500 ms.
run_call ==
  /\ run_pc = "idle"
  /\ run_pc' = "sleep"
  /\ UNCHANGED handles_lock

\* watcher_handles.read() of run, after the first sleep (185) or after a
\* sleep of the loop (197): the acquisition joins the queue of the lock.
run_read ==
  /\ run_pc \in {"sleep", "wait"}
  /\ run_pc' = IF run_pc = "sleep" THEN "read" ELSE "read_again"
  /\ handles_lock' = [handles_lock EXCEPT !.queue = Append(@, 0)]

\* The handles of the tasks that is_finished does not report.
running_count(handles, ts) == Cardinality({ k \in DOMAIN handles : ts[handles[k]].pc # "done" })

\* The read of run is granted.  The guard of line 185 is a local of the
\* function: run returns at once without handles, and otherwise keeps the
\* guard while it loops.  The guard of line 197 lives for one round, in
\* which run counts the running tasks and returns when there is none.
run_granted ==
  /\ run_pc \in {"read", "read_again"}
  /\ handles_lock.queue # << >>
  /\ Head(handles_lock.queue) = 0
  /\ LET returns == IF run_pc = "read" THEN watcher_handles = << >>
                    ELSE running_count(watcher_handles, tasks) = 0
     IN  /\ run_pc' = IF returns THEN "returned" ELSE "wait"
         /\ handles_lock' = [readers |-> IF returns THEN 0 ELSE 1,
                             queue |-> Tail(handles_lock.queue)]

\* watcher_handles.write() of start (158): the acquisition joins the
\* queue.
start_write(c) ==
  /\ starts[c].pc = "push"
  /\ c \notin Waiting(handles_lock)
  /\ handles_lock' = [handles_lock EXCEPT !.queue = Append(@, c)]
  /\ UNCHANGED run_pc

\* The write of start is granted when it is the first of the queue and no
\* read guard is held; the handle is pushed and the guard dropped.
start_granted(c) ==
  /\ handles_lock.queue # << >>
  /\ Head(handles_lock.queue) = c
  /\ handles_lock.readers = 0
  /\ start_push_handle(c)
  /\ handles_lock' = [handles_lock EXCEPT !.queue = Tail(@)]
  /\ UNCHANGED run_pc

\* A scan iteration that cannot get its client.
fetch_fails(i) ==
  \E latest \in RpcScripts({0}) : \E blocks \in RpcScripts({0}) :
    fetch_and_broadcast_blocks(i, FALSE, latest, blocks)

InitRun ==
  /\ SharedBlockWatcher_new
  /\ OzMonitorServices_new({}, {})
  /\ LoadBalancer_new("ConsistentHashing")
  /\ MonitorWorkerPool_new
  /\ CachedBlockClient_new
  /\ OrchestratorConfig_new
  /\ LoadBalancer_idle
  /\ WorkerTasks_new
  /\ TenantContext_none
  /\ SharedBlockWatcher_idle
  /\ OzMonitorServices_idle

NextRun ==
  \/ \E n \in Networks : add_network(n) /\ UNCHANGED run_vars /\ UNCHANGED << oz_vars, lb_vars, pool_vars, cache_vars, config_vars, lock_vars, task_vars, context_vars, match_vars >>
  \/ \E s \in Slugs : remove_network(s) /\ UNCHANGED run_vars /\ UNCHANGED << oz_vars, lb_vars, pool_vars, cache_vars, config_vars, lock_vars, task_vars, context_vars, match_vars >>
  \/ \E c \in StartIds : start_collect(c) /\ UNCHANGED run_vars /\ UNCHANGED << oz_vars, lb_vars, pool_vars, cache_vars, config_vars, lock_vars, task_vars, context_vars, match_vars >>
  \/ \E c \in StartIds : \E n \in Networks : start_network_watcher(c, n) /\ UNCHANGED run_vars /\ UNCHANGED << oz_vars, lb_vars, pool_vars, cache_vars, config_vars, lock_vars, task_vars, context_vars, match_vars >>
  \/ \E c \in StartIds : start_write(c) /\ UNCHANGED watcher_vars /\ UNCHANGED << oz_vars, lb_vars, pool_vars, cache_vars, config_vars, lock_vars, task_vars, context_vars, match_vars >>
  \/ \E c \in StartIds : start_granted(c) /\ UNCHANGED << oz_vars, lb_vars, pool_vars, cache_vars, config_vars, lock_vars, task_vars, context_vars, match_vars >>
  \/ \E c \in StartIds : start_return(c) /\ UNCHANGED run_vars /\ UNCHANGED << oz_vars, lb_vars, pool_vars, cache_vars, config_vars, lock_vars, task_vars, context_vars, match_vars >>
  \/ run_call /\ UNCHANGED watcher_vars /\ UNCHANGED << oz_vars, lb_vars, pool_vars, cache_vars, config_vars, lock_vars, task_vars, context_vars, match_vars >>
  \/ run_read /\ UNCHANGED watcher_vars /\ UNCHANGED << oz_vars, lb_vars, pool_vars, cache_vars, config_vars, lock_vars, task_vars, context_vars, match_vars >>
  \/ run_granted /\ UNCHANGED watcher_vars /\ UNCHANGED << oz_vars, lb_vars, pool_vars, cache_vars, config_vars, lock_vars, task_vars, context_vars, match_vars >>
  \/ \E i \in TaskIds : loop_check(i) /\ UNCHANGED run_vars /\ UNCHANGED << oz_vars, lb_vars, pool_vars, cache_vars, config_vars, lock_vars, task_vars, context_vars, match_vars >>
  \/ \E i \in TaskIds : fetch_fails(i) /\ UNCHANGED run_vars /\ UNCHANGED << oz_vars, lb_vars, pool_vars, cache_vars, config_vars, lock_vars, task_vars, context_vars, match_vars >>
  \/ \E i \in TaskIds : loop_exit(i) /\ UNCHANGED run_vars /\ UNCHANGED << oz_vars, lb_vars, pool_vars, cache_vars, config_vars, lock_vars, task_vars, context_vars, match_vars >>

SpecRun == InitRun /\ [][NextRun]_vars

\* The steps of the call c of start, of run and of the task i that need
\* nothing from outside.
start_step(c) ==
  /\ \/ \E n \in Networks : start_network_watcher(c, n) /\ UNCHANGED run_vars
     \/ start_write(c) /\ UNCHANGED watcher_vars
     \/ start_granted(c)
     \/ start_return(c) /\ UNCHANGED run_vars
  /\ UNCHANGED << oz_vars, lb_vars, pool_vars, cache_vars, config_vars, lock_vars, task_vars, context_vars, match_vars >>

run_step ==
  /\ run_read \/ run_granted
  /\ UNCHANGED watcher_vars
  /\ UNCHANGED << oz_vars, lb_vars, pool_vars, cache_vars, config_vars, lock_vars, task_vars, context_vars, match_vars >>

scan_step(i) ==
  /\ i \in TaskIds
  /\ loop_check(i) \/ fetch_fails(i) \/ loop_exit(i)
  /\ UNCHANGED run_vars
  /\ UNCHANGED << oz_vars, lb_vars, pool_vars, cache_vars, config_vars, lock_vars, task_vars, context_vars, match_vars >>

\* The runtime runs every task that can go on.
SpecRunFair ==
  /\ SpecRun
  /\ \A c \in StartIds : WF_vars(start_step(c))
  /\ WF_vars(run_step)
  /\ \A i \in 1 .. MaxTasks : WF_vars(scan_step(i))

\* =============================================================== C39
\* C39: no acquisition of the lock around watcher_handles, of start or of
\* run, waits for ever.
C39_NoCallWaitsForever ==
  \A e \in {0} \cup StartIds :
    (e \in Waiting(handles_lock)) ~> (e \notin Waiting(handles_lock))

\* ============================== the matches of a block (C40)
\* A match of the filter service.  EVM: the destination of the
\* transaction ("" for None).  Stellar: whether matched_on_args names
\* functions, the first address of the matched monitor and the contractId
\* of the first invokeHostFunction operation of the envelope ("" for
\* none).  passes is what evaluate_trigger_conditions returns for it.
EvmMatch(to, passes) ==
  [chain |-> "EVM", to |-> to, functions |-> FALSE, monitor_address |-> "",
   contract_id |-> "", passes |-> passes]

StellarMatch(functions, monitor_address, contract_id, passes) ==
  [chain |-> "Stellar", to |-> "", functions |-> functions,
   monitor_address |-> monitor_address, contract_id |-> contract_id, passes |-> passes]

\* The matches filter_block can return for an EVM block and for a Stellar
\* block.
EvmMatches ==
  { EvmMatch(to, p) : to \in {"", "0xa", "0xA"}, p \in BOOLEAN }

StellarMatches ==
  { StellarMatch(TRUE, a, c, TRUE) : a \in {"", "0xa"}, c \in {"", "0xA"} }
    \cup { StellarMatch(FALSE, "0xa", "", TRUE), StellarMatch(TRUE, "0xa", "", FALSE) }

\* Matches of one tenant for one block.
MaxResults == 2

ResultLists(S) == UNION { [1 .. n -> S] : n \in 0 .. MaxResults }

\* The monitors of the context of every tenant: name and addresses.
ContextMonitors == { [name |-> "m1", addresses |-> << "0xa" >>] }

to_ascii_lowercase(a) == IF a = "0xA" THEN "0xa" ELSE a

eq_ignore_ascii_case(a, b) == to_ascii_lowercase(a) = to_ascii_lowercase(b)

\* monitors.iter().find(..): the monitors with an address that equals
\* address without regard to case.
find_monitor(monitors, address) ==
  { m \in monitors :
      \E k \in DOMAIN m.addresses : eq_ignore_ascii_case(m.addresses[k], address) }

\* Result<String> of extract_stellar_contract_address.
extract_stellar_contract_address(stellar_match) ==
  IF stellar_match.monitor_address # ""
    THEN [ok |-> TRUE, address |-> stellar_match.monitor_address]
  ELSE IF stellar_match.contract_id # ""
    THEN [ok |-> TRUE, address |-> stellar_match.contract_id]
  ELSE [ok |-> FALSE, address |-> ""]

\* What one round of the loop over filter_results does with a match:
\* "continue", "error" (the ? returns from the function) or "evaluate".
ethereum_round(monitor_match) ==
  IF monitor_match.chain = "Stellar" THEN "continue"
  ELSE IF monitor_match.to = "" THEN "continue"
  ELSE "evaluate"

stellar_round(monitor_match) ==
  IF monitor_match.chain = "EVM" THEN "continue"
  ELSE IF ~ monitor_match.functions THEN "continue"
  ELSE IF ~ extract_stellar_contract_address(monitor_match).ok THEN "error"
  ELSE "evaluate"

subject_address(monitor_match) ==
  IF monitor_match.chain = "EVM" THEN monitor_match.to
  ELSE extract_stellar_contract_address(monitor_match).address

process_round(chain, monitor_match) ==
  IF chain = "EVM" THEN ethereum_round(monitor_match) ELSE stellar_round(monitor_match)

\* process_ethereum_block and process_stellar_block from filter_results
\* on: Ok with the matches pushed, or Err.
RECURSIVE process_matches(_, _, _, _, _)
process_matches(chain, tenant_id, monitors, results, pushed) ==
  IF results = << >> THEN [ok |-> TRUE, matches |-> pushed]
  ELSE LET m == Head(results)
           r == process_round(chain, m)
           found == find_monitor(monitors, subject_address(m))
       IN  IF r = "error" THEN [ok |-> FALSE, matches |-> << >>]
           ELSE process_matches(chain, tenant_id, monitors, Tail(results),
                  IF r = "evaluate" /\ found # {} /\ m.passes
                    THEN Append(pushed, [tenant_id |-> tenant_id, monitor_match |-> m])
                    ELSE pushed)

\* process_block is called with a block for the tenants tenant_ids.
process_block_call(tenant_ids) ==
  /\ block_result.kind \in {"none", "ok", "err"}
  /\ block_result' = BlockResult("running", tenant_ids, << >>)
  /\ UNCHANGED << block_type, filter_results >>

\* One round of the loop over the tenants (process_block, 139-157).
process_block_tenant ==
  /\ block_result.kind = "running"
  /\ block_result.tenant_ids # << >>
  /\ LET tenant_id == Head(block_result.tenant_ids)
         r == process_matches(block_type, tenant_id, ContextMonitors,
                              filter_results[tenant_id], << >>)
     IN  block_result' =
           IF r.ok
             THEN BlockResult("running", Tail(block_result.tenant_ids),
                              block_result.matches \o r.matches)
             ELSE BlockResult("err", << >>, << >>)
  /\ UNCHANGED << block_type, filter_results >>

\* Ok(all_matches)
process_block_ok ==
  /\ block_result.kind = "running"
  /\ block_result.tenant_ids = << >>
  /\ block_result' = BlockResult("ok", << >>, block_result.matches)
  /\ UNCHANGED << block_type, filter_results >>

InitMatches ==
  /\ SharedBlockWatcher_new
  /\ OzMonitorServices_new({}, {})
  /\ LoadBalancer_new("ConsistentHashing")
  /\ MonitorWorkerPool_new
  /\ CachedBlockClient_new
  /\ OrchestratorConfig_new
  /\ LoadBalancer_idle
  /\ WorkerTasks_new
  /\ TenantContext_none
  /\ SharedBlockWatcher_idle
  /\ block_type \in {"EVM", "Stellar"}
  /\ filter_results \in
       [Tenants -> ResultLists(IF block_type = "EVM"
                                 THEN EvmMatches \cup {StellarMatch(TRUE, "0xa", "", TRUE)}
                                 ELSE StellarMatches \cup {EvmMatch("0xa", TRUE)})]
  /\ block_result = BlockResult("none", << >>, << >>)

NextMatches ==
  \/ \E ts \in { l \in TenantLists : Len(l) = Cardinality(Tenants) } : process_block_call(ts) /\ UNCHANGED << watcher_vars, oz_vars, lb_vars, pool_vars, cache_vars, config_vars, lock_vars, task_vars, context_vars, run_vars >>
  \/ process_block_tenant /\ UNCHANGED << watcher_vars, oz_vars, lb_vars, pool_vars, cache_vars, config_vars, lock_vars, task_vars, context_vars, run_vars >>
  \/ process_block_ok /\ UNCHANGED << watcher_vars, oz_vars, lb_vars, pool_vars, cache_vars, config_vars, lock_vars, task_vars, context_vars, run_vars >>

SpecMatches == InitMatches /\ [][NextMatches]_vars

\* =============================================================== C40
\* The matches of the tenants tenant_ids, in order, that belong to the
\* chain of the block, have a subject address, a monitor for it and
\* trigger conditions that pass.
RECURSIVE Determined(_)
Determined(results) ==
  IF results = << >> THEN << >>
  ELSE LET m == Head(results)
       IN  (IF /\ m.chain = block_type
               /\ (m.chain = "Stellar" => m.functions)
               /\ subject_address(m) # ""
               /\ find_monitor(ContextMonitors, subject_address(m)) # {}
               /\ m.passes
              THEN << m >> ELSE << >>) \o Determined(Tail(results))

HasUndetermined(results) ==
  \E k \in DOMAIN results :
    /\ results[k].chain = block_type
    /\ (results[k].chain = "Stellar" => results[k].functions)
    /\ subject_address(results[k]) = ""

\* C40: a block of which some match has no subject address is processed
\* to the end for all its tenants, and the result holds, tenant by tenant,
\* every other match that is to be included.
C40_UndeterminedMatchDropped ==
  (\E t \in Tenants : HasUndetermined(filter_results[t])) =>
    /\ block_result.kind # "err"
    /\ block_result.kind = "ok" =>
         \A t \in Tenants :
           SelectSeq(block_result.matches, LAMBDA x : x.tenant_id = t)
             = [k \in DOMAIN Determined(filter_results[t]) |->
                  [tenant_id |-> t, monitor_match |-> Determined(filter_results[t])[k]]]

====
